---- MODULE Spec2Model ----
(***************************************************************************)
(* f2clipboard: the merge-resolve and merge-checks commands.               *)
(*                                                                         *)
(* One invocation of a command is one behaviour.  Init draws the command   *)
(* line, the settings and the state of the repository; every external      *)
(* call (git, pre-commit, pytest, HTTP) answers nondeterministically.      *)
(* Texts whose characters matter are sequences of one-character strings.   *)
(***************************************************************************)
EXTENDS Integers, Sequences, FiniteSets, TLC

\* ------------------------------------------------------------------ bounds
\* exit codes of external commands range over 0..MaxRc
MaxRc == 2

RetCodes == 0..MaxRc

\* exit codes of the commands whose code is only compared with zero
OkOrFail == {0, 1}

\* ------------------------------------------------------- optional values
\* Python None for values modelled as strings
None == "None"
\* Python None for values modelled as texts (sequences of characters)
NoText == <<"None">>

\* ------------------------------------------------------------ str helpers
Whitespace == {" ", "\n", "\t"}
NUL == "NUL"

Take(s, n) == SubSeq(s, 1, IF n < Len(s) THEN n ELSE Len(s))
Drop(s, n) == SubSeq(s, n + 1, Len(s))

RECURSIVE LStrip(_, _)
LStrip(s, chars) ==
    IF s # <<>> /\ s[1] \in chars THEN LStrip(Drop(s, 1), chars) ELSE s

RECURSIVE RStrip(_, _)
RStrip(s, chars) ==
    IF s # <<>> /\ s[Len(s)] \in chars
    THEN RStrip(SubSeq(s, 1, Len(s) - 1), chars) ELSE s

\* str.strip()
Strip(s) == RStrip(LStrip(s, Whitespace), Whitespace)

\* str.strip('"')
StripQuotes(s) == RStrip(LStrip(s, {"\""}), {"\""})

\* str.split(sep) for a one-character separator
RECURSIVE Split(_, _)
Split(s, sep) ==
    IF \A i \in 1..Len(s) : s[i] # sep
    THEN <<s>>
    ELSE LET i == CHOOSE k \in 1..Len(s) :
                      s[k] = sep /\ \A j \in 1..(k - 1) : s[j] # sep
         IN  <<SubSeq(s, 1, i - 1)>> \o Split(Drop(s, i), sep)

\* str.splitlines()
SplitLines(s) ==
    LET p == Split(s, "\n")
    IN  IF s = <<>> THEN <<>>
        ELSE IF s[Len(s)] = "\n" THEN SubSeq(p, 1, Len(p) - 1) ELSE p

\* positions at which "->" starts in s
ArrowAt(s) == {i \in 1..(Len(s) - 1) : s[i] = "-" /\ s[i + 1] = ">"}

\* path.split("->", 1)[1]
AfterArrow(s) ==
    LET i == CHOOSE k \in ArrowAt(s) : \A j \in ArrowAt(s) : k <= j
    IN  Drop(s, i + 1)

\* ast.literal_eval on a text that starts and ends with a double quote:
\* a plain string literal evaluates to its content; anything else (a quote
\* inside, a lone quote) raises and the caller falls back to strip('"').
\* Paths of the model carry no backslash escapes.
LiteralEval(s) ==
    IF Len(s) >= 2 /\ \A i \in 2..(Len(s) - 1) : s[i] # "\""
    THEN SubSeq(s, 2, Len(s) - 1)
    ELSE StripQuotes(s)

\* ------------------------------------------------- merge_checks._parse_git_status
\* NUL-delimited mode: the loop over entry_iter, a rename/copy entry consuming
\* the record that follows it
RECURSIVE ParseNulEntries(_, _)
ParseNulEntries(entries, files) ==
    IF entries = <<>> THEN files
    ELSE LET entry  == entries[1]
             status == Take(entry, 2)
             rest   == Drop(entries, 1)
             renamed == status # <<>> /\ status[1] \in {"R", "C"}
         IN  IF renamed /\ rest = <<>> THEN files
             ELSE LET path == IF renamed THEN rest[1] ELSE Drop(entry, 3)
                      next == IF renamed THEN Drop(rest, 1) ELSE rest
                  IN  IF (\E i \in 1..Len(status) : status[i] = "D") \/ path = <<>>
                      THEN ParseNulEntries(next, files)
                      ELSE ParseNulEntries(next, Append(files, path))

\* line mode: one entry per line
RECURSIVE ParseLines(_, _)
ParseLines(lines, files) ==
    IF lines = <<>> THEN files
    ELSE LET line   == lines[1]
             status == Take(line, 2)
             p0     == Strip(Drop(line, 3))
             p1     == IF p0 # <<>> /\ p0[1] = "\"" /\ p0[Len(p0)] = "\""
                       THEN LiteralEval(p0) ELSE p0
             p2     == IF ArrowAt(p1) # {} THEN Strip(AfterArrow(p1)) ELSE p1
         IN  IF line = <<>> \/ p0 = <<>>
             THEN ParseLines(Drop(lines, 1), files)
             ELSE IF \E i \in 1..Len(status) : status[i] = "D"
                  THEN ParseLines(Drop(lines, 1), files)
                  ELSE ParseLines(Drop(lines, 1), Append(files, p2))

_parse_git_status(output) ==
    IF \E i \in 1..Len(output) : output[i] = NUL
    THEN ParseNulEntries(SelectSeq(Split(output, NUL), LAMBDA e : e # <<>>), <<>>)
    ELSE ParseLines(SplitLines(output), <<>>)

\* ---------------------------------------------------------------- inputs
MergeStrategy == {"ours", "theirs", "both"}

\* values of --base (None: option absent)
BaseInputs == {None, "feature-base"}

\* values of --pr (None: option absent)
PrInputs == {None, "", "123", "https://github.com/example/repo/pull/42", "not-a-pr"}

\* GITHUB_TOKEN: unset, empty, whitespace only, set
TokenInputs == {NoText, <<>>, <<" ">>, <<"t">>}

\* OPENAI_API_KEY / ANTHROPIC_API_KEY: unset or set
KeyInputs == {None, "key"}

\* --file lists of merge-checks (<<>>: no --file option); the repository is /r
FileInputs == { <<>>, << <<"a">> >>, << <<"/", "r", "/", "a">>, <<"/", "x">> >> }

\* stdout of `git status --porcelain` in the clean-worktree check
StatusOutputs == { <<>>, <<"?", "?", " ", "u", "\n">>, <<" ", "M", " ", "a", "\n">> }

\* stdout of `git status --porcelain -z` in merge-checks
StatusZOutputs ==
    { <<>>,
      <<"D", " ", " ", "d", NUL>>,
      <<"R", " ", " ", "o", NUL, "n", NUL, " ", "M", " ", "a", NUL>>,
      <<" ", "M", " ", "a", "\n", "D", " ", " ", "d", "\n">> }

\* stdout of `git --no-pager diff --diff-filter=U`
DiffOutputs == { <<" ", "\n">>, <<"x", "\n">>, <<"y">> }

\* stdout of `git config --get remote.origin.url`
RemoteOutputs == {"", "git@github.com:example/repo.git", "https://gitlab.com/example/repo"}

\* base.ref in the PR metadata (None: key missing or empty)
BaseRefs == {None, "develop"}

\* texts an LLM provider may answer with, already stripped
PatchOutputs == { <<>>, <<"p">> }

\* ---------------------------------------------------------------- state
VARIABLES
    command,        \* "merge-resolve" or "merge-checks"
    base, strategy, run_checks, pr, files,   \* command-line parameters
    settings,       \* Settings(): github_token, openai_api_key, anthropic_api_key
    merge_head,     \* .git/MERGE_HEAD exists
    pc,             \* position of the invocation
    exit_code,      \* process exit code, meaningful once pc = "done"
    base_provided, merge_base, pr_number, owner, repo_name, base_ref,
    strategies, idx, conflict_diffs, succeeded,
    target_files,   \* merge_checks_command: files handed to pre-commit
    checks_exit,    \* code of the typer.Exit raised by merge_checks_command, 0: returned
    commands,       \* subprocess.run calls in order: [argv, rc]
    requests,       \* HTTP requests in order
    posted,         \* calls of _post_pr_comment in order
    echoed          \* typer.echo calls in order

\* secret.redact_secrets applied on its own
VARIABLES
    text,           \* the argument of the first call
    redacted        \* the results of successive calls, each on the previous result

\* codex_task._process_task
VARIABLES
    task_settings,  \* Settings: openai_api_key, anthropic_api_key, log_size_threshold
    check_runs,     \* what _fetch_check_runs returns: [name, conclusion, log]
    task_pc,        \* position of _process_task
    run_no,         \* position of `for run in check_runs`
    sections,
    result,         \* the returned Markdown, NoText before the return
    uses            \* what happened to log texts, in order: [use, run, text]

task_vars == <<task_settings, check_runs, task_pc, run_no, sections, result, uses>>

\* merge_checks._parse_git_status applied on its own
VARIABLES
    status_entries, \* what git reports: [status, path, orig] per entry
    status_mode,    \* "z": --porcelain -z, "line": --porcelain
    status_output,  \* the text git prints for status_entries
    parsed_files,   \* the returned list
    status_pc

status_vars == <<status_entries, status_mode, status_output, parsed_files, status_pc>>

\* f2clipboard._load_plugins
VARIABLES
    entry_points,    \* what entry_points(group="f2clipboard.plugins") yields
    _loaded_plugins,
    invoked,         \* entry points whose callable was called on the app, in order
    load_calls       \* number of _load_plugins() calls so far

plugin_vars == <<entry_points, _loaded_plugins, invoked, load_calls>>

\* f2clipboard.select_files (the legacy script)
VARIABLES
    offered,        \* list(files)
    selected_files,
    choice,         \* the latest input() line, NoText before the first
    choices,        \* number of input() lines read
    select_pc

select_vars == <<offered, selected_files, choice, choices, select_pc>>

tool_vars == <<status_vars, plugin_vars, select_vars>>

\* the state outside the merge commands
aside == <<text, redacted, task_vars, tool_vars>>

params == <<command, base, strategy, run_checks, pr, files, settings>>
locals == <<base_provided, merge_base, pr_number, owner, repo_name, base_ref,
            strategies, idx, conflict_diffs, succeeded, target_files, checks_exit>>
logs   == <<commands, requests, posted, echoed>>
vars   == <<params, merge_head, pc, exit_code, locals, logs, aside>>

Echo(msg) == [msg |-> msg, text |-> <<>>]
Run(argv, rc) == [argv |-> argv, rc |-> rc]
\* a call with stdout=subprocess.PIPE; the output of a failed call is not used
RunOut(argv, rc, out) ==
    [argv |-> argv, rc |-> rc, stdout |-> IF rc = 0 THEN out ELSE <<>>]

\* faulty variant: every failure exits with 1
AlwaysOne(code) == 1

\* `code or 1`
OrOne(code) == IF code # 0 THEN code ELSE 1

\* _parse_git_status is not running
StatusIdle ==
    /\ status_entries = <<>> /\ status_mode = None /\ status_output = <<>>
    /\ parsed_files = <<>> /\ status_pc = "idle"

\* no plugin is registered and _load_plugins is not called
PluginsIdle ==
    /\ entry_points = <<>> /\ _loaded_plugins = <<>> /\ invoked = <<>>
    /\ load_calls = 0

\* select_files is not running
SelectIdle ==
    /\ offered = <<>> /\ selected_files = <<>> /\ choice = NoText
    /\ choices = 0 /\ select_pc = "idle"

Init ==
    /\ StatusIdle
    /\ PluginsIdle
    /\ SelectIdle
    /\ command \in {"merge-resolve", "merge-checks"}
    /\ settings \in [github_token : TokenInputs,
                     openai_api_key : KeyInputs,
                     anthropic_api_key : KeyInputs]
    /\ merge_head \in BOOLEAN
    /\ IF command = "merge-resolve"
       THEN /\ base \in BaseInputs
            /\ strategy \in MergeStrategy
            /\ run_checks \in BOOLEAN
            /\ pr \in PrInputs
            /\ files = <<>>
            /\ pc = "clean_check"
       ELSE /\ base = None
            /\ strategy = "ours"
            /\ run_checks = TRUE
            /\ pr = None
            /\ files \in FileInputs
            /\ settings = [github_token |-> NoText, openai_api_key |-> None,
                           anthropic_api_key |-> None]
            /\ merge_head = FALSE
            /\ pc = "checks"
    /\ exit_code = 0
    /\ base_provided = FALSE
    /\ merge_base = None
    /\ pr_number = None
    /\ owner = None
    /\ repo_name = None
    /\ base_ref = None
    /\ strategies = <<>>
    /\ idx = 1
    /\ conflict_diffs = <<>>
    /\ succeeded = None
    /\ target_files = <<>>
    /\ checks_exit = 0
    /\ commands = <<>>
    /\ requests = <<>>
    /\ posted = <<>>
    /\ echoed = <<>>
    /\ text = <<>>
    /\ redacted = <<>>
    /\ task_settings = [openai_api_key |-> None, anthropic_api_key |-> None,
                        log_size_threshold |-> 0]
    /\ check_runs = <<>>
    /\ task_pc = "idle"
    /\ run_no = 1
    /\ sections = <<>>
    /\ result = NoText
    /\ uses = <<>>

\* raise typer.Exit(code) out of the command
Exit(code) == pc' = "done" /\ exit_code' = code

\* ------------------------------------------- merge_resolve._ensure_clean_worktree
GitStatus == <<"git", "status", "--porcelain">>

\* faulty variant: untracked files are not counted as changes
HasChangesIgnoringUntracked(out) == Strip(out) # <<>> /\ Take(out, 2) # <<"?", "?">>

\* `if status.stdout.strip():`
HasChanges(out) == Strip(out) # <<>>

_ensure_clean_worktree ==
    /\ pc = "clean_check"
    /\ IF merge_head
       THEN /\ echoed' = Append(echoed, Echo("A merge is already in progress"))
            /\ Exit(1)
            /\ UNCHANGED commands
       ELSE \E rc \in RetCodes, out \in StatusOutputs :
              /\ commands' = Append(commands, RunOut(GitStatus, rc, out))
              /\ IF rc # 0
                 THEN /\ echoed' = Append(echoed, Echo("git status failed"))
                      /\ Exit(OrOne(rc))
                 ELSE IF HasChanges(out)
                 THEN /\ echoed' = Append(echoed, Echo("Repository has uncommitted changes"))
                      /\ Exit(1)
                 ELSE /\ pc' = "pr_parse"
                      /\ UNCHANGED <<echoed, exit_code>>
    /\ UNCHANGED <<aside, params, merge_head, locals, requests, posted>>

\* --------------------------------------------- merge_resolve._parse_pr_identifier
\* a number, a pull-request URL, or anything else (ValueError)
_parse_pr_identifier(pr_value) ==
    CASE pr_value = "123" ->
           [ok |-> TRUE, number |-> "123", owner |-> None, repo |-> None]
      [] pr_value = "https://github.com/example/repo/pull/42" ->
           [ok |-> TRUE, number |-> "42", owner |-> "example", repo |-> "repo"]
      [] OTHER ->
           [ok |-> FALSE, number |-> None, owner |-> None, repo |-> None]

\* ------------------------------------------------- merge_resolve._get_remote_slug
GitConfig == <<"git", "config", "--get", "remote.origin.url">>

_get_remote_slug(rc, url) ==
    CASE rc # 0 -> [ok |-> FALSE, owner |-> None, repo |-> None]
      [] rc = 0 /\ url \in {"git@github.com:example/repo.git",
                            "https://github.com/example/repo.git"} ->
           [ok |-> TRUE, owner |-> "example", repo |-> "repo"]
      [] OTHER -> [ok |-> FALSE, owner |-> None, repo |-> None]

\* click: where the value of --base came from
ParameterSource(value) == IF value = None THEN "DEFAULT" ELSE "COMMANDLINE"

\* faulty variant: --base is never recognised as given
BaseNeverProvided(base_source) == FALSE

\* base_provided = base_source not in (None, ParameterSource.DEFAULT)
BaseProvided(base_source) == base_source \notin {None, "DEFAULT"}

\* faulty variant: `both` expands in the wrong order
StrategiesSwapped(s) == IF s = "both" THEN <<"theirs", "ours">> ELSE <<s>>

\* `if strategy is MergeStrategy.both: ... else: ...`
Strategies(s) == IF s = "both" THEN <<"ours", "theirs">> ELSE <<s>>

\* f"origin/{base_ref}"
OriginRef(ref) ==
    CASE ref = "develop" -> "origin/develop"
      [] ref = "main" -> "origin/main"
      [] OTHER -> "origin/?"

\* faulty variant: the base of the PR is not used
ResolveMergeBaseIgnoringPr(given, ref, provided) ==
    IF given = None THEN "origin/main" ELSE given

\* the base the merge attempts use: the PR's base unless --base was given,
\* `origin/main` when neither is known
ResolveMergeBase(given, ref, provided) ==
    LET fromPr == IF ref # None /\ ~provided THEN OriginRef(ref) ELSE given
    IN  IF fromPr = None THEN "origin/main" ELSE fromPr

\* merge_resolve_command up to the PR lookup: click context, Settings(),
\* PR identifier and owner/repo
ResolvePr ==
    /\ pc = "pr_parse"
    /\ base_provided' = BaseProvided(ParameterSource(base))
    /\ IF pr \in {None, ""}
       THEN /\ merge_base' = ResolveMergeBase(base, None, base_provided')
            /\ strategies' = Strategies(strategy)
            /\ pc' = "merge"
            /\ UNCHANGED <<pr_number, owner, repo_name, commands, echoed, exit_code>>
       ELSE LET parsed == _parse_pr_identifier(pr)
            IN  IF ~parsed.ok
                THEN /\ echoed' = Append(echoed, Echo("Provide a PR number or GitHub pull request URL"))
                     /\ Exit(1)
                     /\ UNCHANGED <<merge_base, strategies, pr_number, owner, repo_name, commands>>
                ELSE IF parsed.owner = None \/ parsed.repo = None
                THEN \E rc \in OkOrFail, url \in RemoteOutputs :
                       LET slug == _get_remote_slug(rc, url)
                       IN  /\ commands' = Append(commands, [argv |-> GitConfig, rc |-> rc,
                                                          stdout |-> IF rc = 0 THEN url ELSE ""])
                           /\ pr_number' = parsed.number
                           /\ UNCHANGED <<merge_base, strategies>>
                           /\ IF slug.ok
                              THEN /\ owner' = slug.owner
                                   /\ repo_name' = slug.repo
                                   /\ pc' = "fetch_base"
                                   /\ UNCHANGED <<echoed, exit_code>>
                              ELSE /\ echoed' = Append(echoed, Echo("origin remote unusable"))
                                   /\ Exit(1)
                                   /\ UNCHANGED <<owner, repo_name>>
                ELSE /\ pr_number' = parsed.number
                     /\ owner' = parsed.owner
                     /\ repo_name' = parsed.repo
                     /\ pc' = "fetch_base"
                     /\ UNCHANGED <<merge_base, strategies, commands, echoed, exit_code>>
    /\ UNCHANGED <<aside, params, merge_head, base_ref, idx, conflict_diffs, succeeded,
                   target_files, checks_exit, requests, posted>>

\* --------------------------------------------------- merge_resolve._fetch_pr_base
\* GET /repos/{owner}/{repo}/pulls/{number}; an HTTP error is a warning
_fetch_pr_base ==
    /\ pc = "fetch_base"
    /\ \E ok \in BOOLEAN, ref \in BaseRefs :
         /\ requests' = Append(requests,
                [kind |-> "GET pulls", owner |-> owner, repo |-> repo_name,
                 number |-> pr_number,
                 authorized |-> (settings.github_token # NoText
                                 /\ Strip(settings.github_token) # <<>>),
                 ok |-> ok, ref |-> IF ok THEN ref ELSE None])
         /\ IF ok
            THEN base_ref' = ref /\ UNCHANGED echoed
            ELSE /\ base_ref' = None
                 /\ echoed' = Append(echoed, Echo("Warning: Failed to fetch PR metadata"))
    /\ pc' = "checkout"
    /\ UNCHANGED <<aside, params, merge_head, exit_code, base_provided, merge_base, pr_number,
                   owner, repo_name, strategies, idx, conflict_diffs, succeeded,
                   target_files, checks_exit, commands, posted>>

\* ----------------------------------------------- merge_resolve._checkout_pr_branch
PR_BRANCH_PREFIX == "pr-"

\* f"{PR_BRANCH_PREFIX}{number}"
PrBranch(number) ==
    CASE number = "123" -> "pr-123"
      [] number = "42"  -> "pr-42"
      [] OTHER -> PR_BRANCH_PREFIX

\* f"pull/{number}/head:{branch}"
PrRefspec(number) ==
    CASE number = "123" -> "pull/123/head:pr-123"
      [] number = "42"  -> "pull/42/head:pr-42"
      [] OTHER -> "pull//head:pr-"

GitFetch(number) == <<"git", "fetch", "--force", "origin", PrRefspec(number)>>
GitCheckout(branch) == <<"git", "checkout", branch>>

\* faulty variant: the exit code of `git fetch` is not looked at
FetchNeverFails(rc) == FALSE

\* `if fetch.returncode != 0: ... raise typer.Exit(...)`
FetchFailed(rc) == rc # 0

\* fetch and check out the PR branch, then settle the base and the strategies
\* (merge_resolve_command up to the loop)
_checkout_pr_branch ==
    /\ pc = "checkout"
    /\ \E frc \in RetCodes :
         IF FetchFailed(frc)
         THEN /\ commands' = Append(commands, Run(GitFetch(pr_number), frc))
              /\ echoed' = Append(echoed, Echo("Failed to fetch PR"))
              /\ Exit(OrOne(frc))
              /\ UNCHANGED <<merge_base, strategies>>
         ELSE \E crc \in RetCodes :
              /\ commands' = commands \o <<Run(GitFetch(pr_number), frc),
                                           Run(GitCheckout(PrBranch(pr_number)), crc)>>
              /\ IF crc # 0
                 THEN /\ echoed' = Append(echoed, Echo("Failed to check out fetched branch"))
                      /\ Exit(OrOne(crc))
                      /\ UNCHANGED <<merge_base, strategies>>
                 ELSE /\ merge_base' = ResolveMergeBase(base, base_ref, base_provided)
                      /\ strategies' = Strategies(strategy)
                      /\ echoed' = echoed \o
                            <<Echo("Checked out PR")>> \o
                            (IF base_ref # None /\ ~base_provided
                             THEN <<Echo("Using base branch from PR metadata")>> ELSE <<>>)
                      /\ pc' = "merge"
                      /\ UNCHANGED exit_code
    /\ UNCHANGED <<aside, params, merge_head, base_provided, pr_number, owner, repo_name,
                   base_ref, idx, conflict_diffs, succeeded, target_files, checks_exit,
                   requests, posted>>

\* ------------------------------------------------ merge_resolve._collect_conflict_diff
GitDiff == <<"git", "--no-pager", "diff", "--diff-filter=U">>

\* None when git diff fails or prints nothing but whitespace
_collect_conflict_diff(rc, out) ==
    IF rc # 0 THEN NoText
    ELSE IF Strip(out) = <<>> THEN NoText ELSE Strip(out)

\* ------------------------------------------------------ merge_resolve._attempt_merge
GitMerge(strat, from) == <<"git", "merge", "--no-commit", "-X", strat, from>>
GitMergeAbort == <<"git", "merge", "--abort">>

\* faulty variant: the exit code of `git merge --abort` is not looked at
AbortNeverFails(rc) == FALSE

\* faulty variant: only exit code 1 of `git merge --abort` counts as a failure
AbortFailedOnlyOne(rc) == rc = 1

\* `if abort.returncode != 0: raise typer.Exit(...)`
AbortFailed(rc) == rc # 0

\* faulty variant: the exit code of the merge is not looked at
MergeAnyCode(rc) == TRUE

\* `if result.returncode == 0: return True, None`
MergeOk(rc) == rc = 0

\* faulty variant: the merge is aborted before the conflict diff is taken
AbortBeforeDiff(merge, mrc, drc, dout, arc) ==
    <<Run(merge, mrc), Run(GitMergeAbort, arc), RunOut(GitDiff, drc, dout)>>

\* the commands of a failed attempt: the merge, _collect_conflict_diff, the
\* abort
FailedAttempt(merge, mrc, drc, dout, arc) ==
    <<Run(merge, mrc), RunOut(GitDiff, drc, dout), Run(GitMergeAbort, arc)>>

\* one pass of the loop over strategies: _attempt_merge(repo, merge_base, current)
\* and the bookkeeping of the loop body
_attempt_merge ==
    /\ pc = "merge"
    /\ idx <= Len(strategies)
    /\ LET current == strategies[idx]
           start   == Echo("Attempting merge")
       IN  \E mrc \in OkOrFail :
             IF MergeOk(mrc)
             THEN /\ commands' = Append(commands, Run(GitMerge(current, merge_base), mrc))
                  /\ echoed' = Append(echoed, start)
                  /\ merge_head' \in BOOLEAN
                  /\ succeeded' = current
                  /\ pc' = "succeeded"
                  /\ UNCHANGED <<idx, conflict_diffs, exit_code>>
             ELSE \E drc \in OkOrFail, dout \in DiffOutputs, arc \in RetCodes :
                  LET diff_text == _collect_conflict_diff(drc, dout)
                  IN  /\ commands' = commands \o
                            FailedAttempt(GitMerge(current, merge_base), mrc, drc, dout, arc)
                      \* a successful abort removes MERGE_HEAD; a failed one leaves
                      \* whatever the failed merge left
                      /\ \E left \in BOOLEAN : merge_head' = (arc # 0 /\ left)
                      /\ IF AbortFailed(arc)
                         THEN /\ echoed' = echoed \o
                                    <<start, Echo("Merge failed")>> \o
                                    (IF drc # 0 THEN <<Echo("Warning: git diff failed")>> ELSE <<>>) \o
                                    <<Echo("Failed to abort merge automatically")>>
                              /\ Exit(OrOne(arc))
                              /\ UNCHANGED <<idx, conflict_diffs, succeeded>>
                         ELSE /\ echoed' = echoed \o
                                    <<start, Echo("Merge failed")>> \o
                                    (IF drc # 0 THEN <<Echo("Warning: git diff failed")>> ELSE <<>>)
                              /\ conflict_diffs' = IF diff_text # NoText
                                                   THEN Append(conflict_diffs, diff_text)
                                                   ELSE conflict_diffs
                              /\ idx' = idx + 1
                              /\ pc' = IF idx + 1 > Len(strategies) THEN "failed" ELSE "merge"
                              /\ UNCHANGED <<succeeded, exit_code>>
    /\ UNCHANGED <<aside, params, base_provided, merge_base, pr_number, owner, repo_name,
                   base_ref, strategies, target_files, checks_exit, requests, posted>>

\* --------------------------------------------------- merge_resolve._post_pr_comment
\* faulty variant: the token is not stripped before it is tested
HasTokenUnstripped(token) == token # NoText /\ token # <<>>

\* `token = token.strip() if token else None`, then `if not token`
HasToken(token) == token # NoText /\ Strip(token) # <<>>

\* the comment bodies
FailureBody == [msg |-> "could not resolve the merge automatically"]
ChecksFailedBody(strat, code) ==
    [msg |-> "merge checks failed with exit code", strategy |-> strat, exit_code |-> code]
ChecksPassedBody(strat) ==
    [msg |-> "Merge checks were executed successfully", strategy |-> strat]
ChecksSkippedBody(strat) ==
    [msg |-> "Remember to run validation checks before pushing", strategy |-> strat]

\* `pr_number is not None and owner and repo_name`
HasPr == pr_number # None /\ owner \notin {None, ""} /\ repo_name \notin {None, ""}

\* faulty variant: the error of a failed POST leaves _post_pr_comment
PostRaisesOnError(ok) == ~ok

\* `except httpx.HTTPError as exc:` echoes a warning and returns: no error of
\* the POST leaves _post_pr_comment
PostRaises(ok) == FALSE

\* what one call of _post_pr_comment adds to the logs; ok: the POST succeeds
_post_pr_comment(body, ok) ==
    [posted   |-> <<[owner |-> owner, repo |-> repo_name, number |-> pr_number,
                     token |-> settings.github_token, body |-> body]>>,
     requests |-> IF HasToken(settings.github_token)
                  THEN <<[kind |-> "POST comments", owner |-> owner, repo |-> repo_name,
                          number |-> pr_number, body |-> body, ok |-> ok]>>
                  ELSE <<>>,
     echoed   |-> IF ~HasToken(settings.github_token)
                  THEN <<Echo("Skipping PR comment because GITHUB_TOKEN is not configured")>>
                  ELSE IF ok THEN <<Echo("Posted merge summary comment to the PR")>>
                  ELSE <<Echo("Warning: Failed to post PR comment")>>,
     raised   |-> HasToken(settings.github_token) /\ PostRaises(ok)]

NoComment == [posted |-> <<>>, requests |-> <<>>, echoed |-> <<>>, raised |-> FALSE]

\* the exit code after a comment: an exception that left the command would
\* end it with code 1 in place of the typer.Exit that follows
ExitAfter(comment, code) == Exit(IF comment.raised THEN 1 ELSE code)

\* faulty variant: the comment is posted whether a PR is known or not
CommentAlways(body, ok) == _post_pr_comment(body, ok)

\* the comment guarded by `if pr_number is not None and owner and repo_name`
CommentIfPr(body, ok) == IF HasPr THEN _post_pr_comment(body, ok) ELSE NoComment

\* ------------------------------------------- merge_resolve._generate_patch_suggestion
\* a str is truthy unless empty
Truthy(value) == value \notin {None, ""}

\* "\n\n".join(parts)
RECURSIVE Join(_)
Join(parts) ==
    IF parts = <<>> THEN <<>>
    ELSE IF Len(parts) = 1 THEN parts[1]
    ELSE parts[1] \o <<"\n", "\n">> \o Join(Drop(parts, 1))

\* faulty variant: the Anthropic key takes precedence over the OpenAI key
ProviderAnthropicFirst(diff) ==
    IF Strip(diff) = <<>> THEN None
    ELSE IF Truthy(settings.anthropic_api_key) THEN "anthropic"
    ELSE IF Truthy(settings.openai_api_key) THEN "openai"
    ELSE None

\* the provider generate_conflict_patch contacts, None when it contacts none
Provider(diff) ==
    IF Strip(diff) = <<>> THEN None
    ELSE IF Truthy(settings.openai_api_key) THEN "openai"
    ELSE IF Truthy(settings.anthropic_api_key) THEN "anthropic"
    ELSE None

\* faulty variant: a failed call is not turned into None
PatchDespiteError(diff, ok, answer) ==
    IF Provider(diff) = None THEN NoText ELSE answer

\* the suggestion: None without a provider or when the call raised (ok = FALSE)
_generate_patch_suggestion(diff, ok, answer) ==
    IF Provider(diff) = None \/ ~ok THEN NoText ELSE answer

\* merge_resolve_command when every strategy failed
ReportFailure ==
    /\ pc = "failed"
    /\ \E llm_ok \in BOOLEAN, answer \in PatchOutputs, post_ok \in BOOLEAN :
         LET combined_diff == Join(conflict_diffs)
             patch   == _generate_patch_suggestion(combined_diff, llm_ok, answer)
             comment == CommentIfPr(FailureBody, post_ok)
         IN  /\ requests' = requests \o
                   (IF combined_diff # <<>> /\ Provider(combined_diff) # None
                    THEN <<[kind |-> Provider(combined_diff), diff |-> combined_diff,
                            ok |-> llm_ok,
                            answer |-> IF llm_ok THEN answer ELSE NoText]>>
                    ELSE <<>>) \o comment.requests
             /\ echoed' = echoed \o
                   <<Echo("Automatic merge strategies failed. Manual intervention required.")>> \o
                   (IF combined_diff = <<>> THEN <<>>
                    ELSE <<Echo("Attempting to generate a patch suggestion")>> \o
                         (IF patch \notin {NoText, <<>>}
                          THEN <<Echo("Suggested patch"),
                                 [msg |-> "patch", text |-> patch]>>
                          ELSE IF Truthy(settings.openai_api_key)
                                  \/ Truthy(settings.anthropic_api_key)
                          THEN <<Echo("Failed to generate a patch suggestion automatically.")>>
                          ELSE <<Echo("Configure OPENAI_API_KEY or ANTHROPIC_API_KEY")>>)) \o
                   comment.echoed
             /\ posted' = posted \o comment.posted
             /\ ExitAfter(comment, 1)
    /\ UNCHANGED <<aside, params, merge_head, locals, commands>>

\* ------------------------------------------------- merge_checks.merge_checks_command
Repo == <<"/", "r">>

\* str(resolved.relative_to(repo)), str(resolved) when outside the repository
RelativeToRepo(path) ==
    LET resolved == IF path # <<>> /\ path[1] = "/" THEN path ELSE Repo \o <<"/">> \o path
    IN  IF Take(resolved, Len(Repo) + 1) = Repo \o <<"/">>
        THEN Drop(resolved, Len(Repo) + 1) ELSE resolved

GitStatusZ == <<"git", "status", "--porcelain", "-z">>
PreCommit(paths) == <<"pre-commit", "run", "--files">> \o paths
Pytest == <<"pytest", "-q">>

\* faulty variant: a failing pre-commit does not stop the command
PreCommitNeverFails(code) == FALSE

\* `if exit_code != 0: raise typer.Exit(code=exit_code)` after pre-commit
PreCommitFailed(code) == code # 0

\* faulty variant: pre-commit runs whatever the list holds
AlwaysRunsPreCommit(targets) == TRUE

\* `if target_files:`
RunsPreCommit(targets) == targets # <<>>

\* one run of merge_checks_command: src/out answer git status, prc pre-commit,
\* trc pytest.  code: the typer.Exit raised, 0 when the command returns.
MergeChecksRun(explicit, src, out, prc, trc) ==
    LET collected == explicit = <<>>
        targets == IF ~collected
                   THEN [i \in 1..Len(explicit) |-> RelativeToRepo(explicit[i])]
                   ELSE IF src # 0 THEN <<>> ELSE _parse_git_status(out)
        status  == IF collected THEN <<RunOut(GitStatusZ, src, out)>> ELSE <<>>
    IN  IF collected /\ src # 0
        THEN [targets |-> <<>>, commands |-> status, code |-> 1,
              echoed |-> <<Echo("Failed to determine modified files")>>]
        ELSE IF RunsPreCommit(targets) /\ PreCommitFailed(prc)
        THEN [targets |-> targets,
              commands |-> status \o <<Run(PreCommit(targets), prc)>>,
              code |-> prc,
              echoed |-> <<Echo("Running pre-commit")>>]
        ELSE [targets |-> targets,
              commands |-> status \o
                  (IF RunsPreCommit(targets) THEN <<Run(PreCommit(targets), prc)>> ELSE <<>>) \o
                  <<Run(Pytest, trc)>>,
              code |-> trc,
              echoed |-> <<IF RunsPreCommit(targets) THEN Echo("Running pre-commit")
                           ELSE Echo("No modified files detected; skipping pre-commit.")>> \o
                         <<Echo("Running pytest -q")>> \o
                         (IF trc = 0 THEN <<Echo("Checks completed successfully.")>> ELSE <<>>)]

\* the command itself, run from the command line or called by merge-resolve
merge_checks_command ==
    /\ pc = "checks"
    /\ \E src \in OkOrFail, out \in StatusZOutputs, prc \in RetCodes, trc \in RetCodes :
         LET run == MergeChecksRun(files, src, out, prc, trc)
         IN  /\ target_files' = run.targets
             /\ commands' = commands \o run.commands
             /\ echoed' = echoed \o run.echoed
             /\ IF command = "merge-checks"
                THEN Exit(run.code) /\ UNCHANGED checks_exit
                ELSE checks_exit' = run.code /\ pc' = "checks_done" /\ UNCHANGED exit_code
    /\ UNCHANGED <<aside, params, merge_head, base_provided, merge_base, pr_number, owner,
                   repo_name, base_ref, strategies, idx, conflict_diffs, succeeded,
                   requests, posted>>

\* ------------------------------------- merge_resolve_command after a successful merge
\* faulty variant: the checks run whatever --run-checks says
ChecksAlways == TRUE

\* `if run_checks:`
ChecksEnabled == run_checks

MergeSucceeded ==
    /\ pc = "succeeded"
    /\ IF ChecksEnabled
       THEN /\ echoed' = echoed \o <<Echo("Merge completed"), Echo("Review the changes")>>
            /\ pc' = "checks"
            /\ UNCHANGED <<exit_code, requests, posted>>
       ELSE \E post_ok \in BOOLEAN :
            LET comment == CommentIfPr(ChecksSkippedBody(succeeded), post_ok)
            IN  /\ echoed' = echoed \o
                      <<Echo("Merge completed"), Echo("Review the changes"),
                        Echo("Run f2clipboard merge-checks")>> \o comment.echoed
                /\ requests' = requests \o comment.requests
                /\ posted' = posted \o comment.posted
                /\ ExitAfter(comment, 0)
    /\ UNCHANGED <<aside, params, merge_head, locals, commands>>

\* faulty variant: a failed validation exits with the generic failure code
ChecksExitGeneric(code) == IF code # 0 THEN 1 ELSE 0

\* the exit code merge-resolve ends with after the checks: typer.Exit is re-raised
ChecksExitCode(code) == code

\* `except typer.Exit ... raise` / `else` around merge_checks_command
ReportChecks ==
    /\ pc = "checks_done"
    /\ \E post_ok \in BOOLEAN :
         LET body    == IF checks_exit # 0
                        THEN ChecksFailedBody(succeeded, checks_exit)
                        ELSE ChecksPassedBody(succeeded)
             comment == CommentIfPr(body, post_ok)
         IN  /\ echoed' = echoed \o comment.echoed
             /\ requests' = requests \o comment.requests
             /\ posted' = posted \o comment.posted
             /\ ExitAfter(comment, ChecksExitCode(checks_exit))
    /\ UNCHANGED <<aside, params, merge_head, locals, commands>>

\* ------------------------------------------------------------ specification
Next ==
    \/ _ensure_clean_worktree
    \/ ResolvePr
    \/ _fetch_pr_base
    \/ _checkout_pr_branch
    \/ _attempt_merge
    \/ ReportFailure
    \/ MergeSucceeded
    \/ merge_checks_command
    \/ ReportChecks

Spec == Init /\ [][Next]_vars

\* ====================================================== secret.redact_secrets
Lowercase == {"a", "b", "c", "d", "e", "f", "g", "h", "i", "j", "k", "l", "m", "n", "o", "p", "q", "r", "s", "t", "u", "v", "w", "x", "y", "z"}
Uppercase == {"A", "B", "C", "D", "E", "F", "G", "H", "I", "J", "K", "L", "M", "N", "O", "P", "Q", "R", "S", "T", "U", "V", "W", "X", "Y", "Z"}
Digits == {"0", "1", "2", "3", "4", "5", "6", "7", "8", "9"}
Letters == Lowercase \cup Uppercase
Alnum == Letters \cup Digits

UppercaseSeq == <<"A", "B", "C", "D", "E", "F", "G", "H", "I", "J", "K", "L", "M", "N", "O", "P", "Q", "R", "S", "T", "U", "V", "W", "X", "Y", "Z">>
LowercaseSeq == <<"a", "b", "c", "d", "e", "f", "g", "h", "i", "j", "k", "l", "m", "n", "o", "p", "q", "r", "s", "t", "u", "v", "w", "x", "y", "z">>

\* str.lower() on one character and on a text
ToLower(c) ==
    IF c \in Uppercase
    THEN LowercaseSeq[CHOOSE i \in 1..Len(UppercaseSeq) : UppercaseSeq[i] = c]
    ELSE c
Lower(s) == [i \in 1..Len(s) |-> ToLower(s[i])]

\* str.startswith(lit) at index i
StartsWith(s, i, lit) ==
    /\ i + Len(lit) - 1 <= Len(s)
    /\ \A k \in 1..Len(lit) : s[i + k - 1] = lit[k]

\* lit in s
Contains(s, lit) == \E i \in 1..Len(s) : StartsWith(s, i, lit)

\* the last index of the longest run of characters of class that starts at
\* index i; i - 1 when there is none (a greedy `[class]*`)
RECURSIVE RunEnd(_, _, _)
RunEnd(s, i, class) ==
    IF i <= Len(s) /\ s[i] \in class THEN RunEnd(s, i + 1, class) ELSE i - 1

\* a match of a pattern without named groups that ends at index e; e = 0: no match
Unnamed(e) == [end |-> e, named |-> FALSE]
NoMatch == Unnamed(0)

\* gh[oprsu]_[A-Za-z0-9]{36}
MatchGithubToken(s, i) ==
    IF /\ StartsWith(s, i, <<"g", "h">>)
       /\ i + 3 <= Len(s)
       /\ s[i + 2] \in {"o", "p", "r", "s", "u"}
       /\ s[i + 3] = "_"
       /\ RunEnd(s, i + 4, Alnum) >= i + 3 + 36
    THEN Unnamed(i + 3 + 36) ELSE NoMatch

\* github_pat_[A-Za-z0-9_]{22,}
MatchGithubPat(s, i) ==
    LET e == RunEnd(s, i + 11, Alnum \cup {"_"})
    IN  IF StartsWith(s, i, <<"g", "i", "t", "h", "u", "b", "_", "p", "a", "t", "_">>) /\ e - (i + 10) >= 22
        THEN Unnamed(e) ELSE NoMatch

\* sk-[A-Za-z0-9]{32,}
MatchOpenAi(s, i) ==
    LET e == RunEnd(s, i + 3, Alnum)
    IN  IF StartsWith(s, i, <<"s", "k", "-">>) /\ e - (i + 2) >= 32
        THEN Unnamed(e) ELSE NoMatch

\* xox[a-zA-Z]-[A-Za-z0-9-]{10,}
MatchSlack(s, i) ==
    LET e == RunEnd(s, i + 5, Alnum \cup {"-"})
    IN  IF /\ StartsWith(s, i, <<"x", "o", "x">>)
           /\ i + 4 <= Len(s)
           /\ s[i + 3] \in Letters
           /\ s[i + 4] = "-"
           /\ e - (i + 4) >= 10
        THEN Unnamed(e) ELSE NoMatch

\* (?:ASIA|AKIA)[0-9A-Z]{16}
MatchAws(s, i) ==
    IF /\ (StartsWith(s, i, <<"A", "S", "I", "A">>) \/ StartsWith(s, i, <<"A", "K", "I", "A">>))
       /\ RunEnd(s, i + 4, Digits \cup Uppercase) >= i + 3 + 16
    THEN Unnamed(i + 3 + 16) ELSE NoMatch

\* (?i)Bearer\s+[A-Za-z0-9._-]{8,}
MatchBearer(s, i) ==
    LET w == RunEnd(s, i + 6, Whitespace)
        e == RunEnd(s, w + 1, Alnum \cup {".", "_", "-"})
    IN  IF /\ i + 5 <= Len(s)
           /\ Lower(SubSeq(s, i, i + 5)) = <<"b", "e", "a", "r", "e", "r">>
           /\ w >= i + 6
           /\ e - w >= 8
        THEN Unnamed(e) ELSE NoMatch

\* (?:api|token|secret|password)
KEYWORDS == {<<"a", "p", "i">>, <<"t", "o", "k", "e", "n">>, <<"s", "e", "c", "r", "e", "t">>, <<"p", "a", "s", "s", "w", "o", "r", "d">>}

\* (?i)(?P<key>[\w-]*(?:api|token|secret|password)[\w-]*)(?P<pre>\s*)
\* (?P<sep>[:=])(?P<post>\s*)(?P<value>[A-Za-z0-9-_.]{8,}): what follows the
\* key is whitespace or the separator, so the key is the whole run of [\w-]
MatchAssignment(s, i) ==
    LET k == RunEnd(s, i, Alnum \cup {"_", "-"})
        p == RunEnd(s, k + 1, Whitespace)
        q == RunEnd(s, p + 2, Whitespace)
        v == RunEnd(s, q + 1, Alnum \cup {"-", "_", "."})
    IN  IF /\ k >= i
           /\ \E kw \in KEYWORDS : Contains(Lower(SubSeq(s, i, k)), kw)
           /\ p + 1 <= Len(s)
           /\ s[p + 1] \in {":", "="}
           /\ v - q >= 8
        THEN [end |-> v, named |-> TRUE, key |-> SubSeq(s, i, k),
              pre |-> SubSeq(s, k + 1, p), sep |-> <<s[p + 1]>>,
              post |-> SubSeq(s, p + 2, q), value |-> SubSeq(s, q + 1, v)]
        ELSE NoMatch

\* SECRET_PATTERNS[n].match(s, i), n counted from 1
SECRET_PATTERNS == 1..7
Match(n, s, i) ==
    CASE n = 1 -> MatchGithubToken(s, i)
      [] n = 2 -> MatchGithubPat(s, i)
      [] n = 3 -> MatchOpenAi(s, i)
      [] n = 4 -> MatchSlack(s, i)
      [] n = 5 -> MatchAws(s, i)
      [] n = 6 -> MatchBearer(s, i)
      [] n = 7 -> MatchAssignment(s, i)

Stars == <<"*", "*", "*">>
Redacted == <<"R", "E", "D", "A", "C", "T", "E", "D">>

\* faulty variant: the whitespace around the separator is dropped
AssignmentCompact(groups) == groups.key \o groups.sep \o Stars

\* f"{groups['key']}{groups.get('pre', '')}{groups['sep']}{groups.get('post', '')}***"
Assignment(groups) ==
    groups.key \o groups.pre \o groups.sep \o groups.post \o Stars

\* _repl(match): token is match.group(0), groups is match.groupdict()
_repl(token, groups) ==
    IF groups.named THEN Assignment(groups)
    ELSE IF /\ StartsWith(token, 1, <<"g", "h">>)
            /\ token[3] \in {"p", "o", "u", "s", "r"}
            /\ token[4] = "_"
    THEN Take(token, 3) \o <<"_">> \o Redacted
    ELSE IF StartsWith(token, 1, <<"g", "i", "t", "h", "u", "b", "_", "p", "a", "t", "_">>) THEN <<"g", "i", "t", "h", "u", "b", "_", "p", "a", "t", "_">> \o Redacted
    ELSE IF StartsWith(token, 1, <<"s", "k", "-">>) THEN <<"s", "k", "-">> \o Redacted
    ELSE IF StartsWith(token, 1, <<"x", "o", "x">>) THEN Split(token, "-")[1] \o <<"-">> \o Redacted
    ELSE IF StartsWith(token, 1, <<"A", "K", "I", "A">>) \/ StartsWith(token, 1, <<"A", "S", "I", "A">>)
    THEN Take(token, 4) \o <<"_">> \o Redacted
    ELSE IF StartsWith(Lower(token), 1, <<"b", "e", "a", "r", "e", "r", " ">>) THEN <<"B", "e", "a", "r", "e", "r", " ">> \o Stars
    ELSE Stars

\* SECRET_PATTERNS[n].sub(_repl, s) from index i on: matches are taken
\* leftmost first and do not overlap
RECURSIVE SubFrom(_, _, _)
SubFrom(n, s, i) ==
    IF i > Len(s) THEN <<>>
    ELSE LET m == Match(n, s, i)
         IN  IF m.end = 0
             THEN <<s[i]>> \o SubFrom(n, s, i + 1)
             ELSE _repl(SubSeq(s, i, m.end), m) \o SubFrom(n, s, m.end + 1)

\* `for pattern in SECRET_PATTERNS: text = pattern.sub(_repl, text)` from
\* pattern n on
RECURSIVE ApplyPatterns(_, _)
ApplyPatterns(n, s) ==
    IF n \notin SECRET_PATTERNS THEN s
    ELSE ApplyPatterns(n + 1, SubFrom(n, s, 1))

redact_secrets(s) == ApplyPatterns(1, s)

\* ------------------------------------------------- inputs of redact_secrets
\* the number of successive calls of redact_secrets
MaxCalls == 2

Rep(c, n) == [i \in 1..n |-> c]

\* one token of each pattern without named groups, of the shortest length
SecretTokens ==
    { <<"g", "h", "p", "_">> \o Rep("a", 36), <<"g", "h", "o", "_">> \o Rep("d", 36),
      <<"g", "i", "t", "h", "u", "b", "_", "p", "a", "t", "_">> \o Rep("c", 22), <<"s", "k", "-">> \o Rep("b", 32),
      <<"x", "o", "x", "b", "-">> \o Rep("c", 10), <<"A", "K", "I", "A">> \o Rep("A", 16),
      <<"B", "e", "a", "r", "e", "r", " ", "a", "b", "c", "d", "e", "f", "1", "2">> }

\* what stands before and after a token
TokenPrefixes == { <<>>, <<"i", "d", " ">>, <<"t", "o", "k", "e", "n", "=">> }
TokenSuffixes == { <<>>, <<" ", "o", "k">>, Rep("b", 8), Rep("b", 28) }

TokenTexts ==
    { before \o tok \o after :
        before \in TokenPrefixes, tok \in SecretTokens, after \in TokenSuffixes }

\* the parts of an assignment
CredentialKeys == { <<"T", "O", "K", "E", "N">>, <<"a", "p", "i", "_", "k", "e", "y">>, <<"P", "a", "s", "s", "w", "o", "r", "d">>, <<"x", "-", "s", "e", "c", "r", "e", "t">> }
PlainKeys == { <<"n", "a", "m", "e">> }
Gaps == { <<>>, <<" ">>, <<"\t">> }
Separators == { ":", "=" }
Quotes == { <<>>, <<"\"">>, <<"'">> }
LongValue == <<"a", "b", "c", "d", "e", "f", "1", "2", "3", "4", "5", "6">>
DottedValue == <<"a", "b", "-", "c", "d", "_", "e", "f", ".", "1", "2">>
ShortValue == <<"s", "h", "o", "r", "t">>
Surroundings == { [before |-> <<>>, after |-> <<>>],
                  [before |-> <<"e", "x", "p", "o", "r", "t", " ">>, after |-> <<"\n", "o", "k">>] }

AssignmentText(around, key, pre, sep, post, quote, value) ==
    around.before \o key \o pre \o <<sep>> \o post \o quote \o value \o quote
    \o around.after

AssignmentTexts ==
    { AssignmentText(around, key, pre, sep, post, quote, value) :
        around \in Surroundings, key \in CredentialKeys \cup PlainKeys,
        pre \in Gaps, sep \in Separators, post \in Gaps, quote \in Quotes,
        value \in {LongValue, DottedValue, ShortValue} }

SecretTexts == TokenTexts \cup AssignmentTexts

\* ------------------------------------------- redact_secrets called on its own
merge_vars == <<params, merge_head, pc, exit_code, locals, logs>>

\* no merge command is running
MergeIdle ==
    /\ command = None /\ base = None /\ strategy = None /\ run_checks = FALSE
    /\ pr = None /\ files = <<>>
    /\ settings = [github_token |-> NoText, openai_api_key |-> None,
                   anthropic_api_key |-> None]
    /\ merge_head = FALSE /\ pc = "idle" /\ exit_code = 0
    /\ base_provided = FALSE /\ merge_base = None /\ pr_number = None
    /\ owner = None /\ repo_name = None /\ base_ref = None
    /\ strategies = <<>> /\ idx = 1 /\ conflict_diffs = <<>> /\ succeeded = None
    /\ target_files = <<>> /\ checks_exit = 0
    /\ commands = <<>> /\ requests = <<>> /\ posted = <<>> /\ echoed = <<>>

\* _process_task is not running
TaskIdle ==
    /\ task_settings = [openai_api_key |-> None, anthropic_api_key |-> None,
                        log_size_threshold |-> 0]
    /\ check_runs = <<>> /\ task_pc = "idle" /\ run_no = 1
    /\ sections = <<>> /\ result = NoText /\ uses = <<>>

InitSecret ==
    /\ text \in SecretTexts
    /\ redacted = <<>>
    /\ MergeIdle
    /\ TaskIdle
    /\ StatusIdle
    /\ PluginsIdle
    /\ SelectIdle

\* redacted = redact_secrets(text), then redacted = redact_secrets(redacted)
Redact ==
    /\ Len(redacted) < MaxCalls
    /\ redacted' = Append(redacted,
                          redact_secrets(IF redacted = <<>> THEN text
                                         ELSE redacted[Len(redacted)]))
    /\ UNCHANGED <<text, merge_vars, task_vars, tool_vars>>

NextSecret == Redact

SpecSecret == InitSecret /\ [][NextSecret]_vars

\* ================================================== codex_task._process_task
FAIL_CONCLUSIONS == {"failure", "timed_out", "cancelled", "action_required"}

\* characters that cannot be written in a string here
Backtick == "BACKTICK"
Ellipsis == "ELLIPSIS"
Fence == <<Backtick, Backtick, Backtick>>

\* logs as _download_log returns them; the last two are 12 and 13 bytes long
TaskLogs ==
    { <<"T", "O", "K", "E", "N", "=", "a", "b", "c", "d", "e", "f", "1", "2", "3", "4", "5", "6">>, <<"a", "\n", "b", " ", "g", "h", "p", "_">> \o Rep("a", 36), <<"p", "l", "a", "i", "n", "\n", "l", "o", "g", "\n">>, <<>>,
      <<"e", "r", "r", "o", "r", " ", "a", "t", " ">> \o <<Ellipsis>>,
      <<"e", "r", "r", "o", "r", " ", "a", "t", " ", "x">> \o <<Ellipsis>> }

\* check runs: a failing one with any log, a timed out one, a passed one
RunInputs ==
    { [name |-> <<"J">>, conclusion |-> "failure", log |-> l] : l \in TaskLogs }
    \cup { [name |-> <<"T">>, conclusion |-> "timed_out", log |-> <<"T", "O", "K", "E", "N", "=", "a", "b", "c", "d", "e", "f", "1", "2", "3", "4", "5", "6">>],
           [name |-> <<"S">>, conclusion |-> "success", log |-> <<"T", "O", "K", "E", "N", "=", "a", "b", "c", "d", "e", "f", "1", "2", "3", "4", "5", "6">>] }

MaxRuns == 2
CheckRunInputs == UNION { [1..n -> RunInputs] : n \in 0..MaxRuns }

\* LOG_SIZE_THRESHOLD: summarise every log, or the logs above twelve bytes
ThresholdInputs == {0, 12}

\* what a provider answers, already stripped
SummaryOutputs == { <<"S", "U", "M", "M", "A", "R", "Y">> }

\* "\n".join(lines)
RECURSIVE JoinLines(_)
JoinLines(lines) ==
    IF lines = <<>> THEN <<>>
    ELSE IF Len(lines) = 1 THEN lines[1]
    ELSE lines[1] \o <<"\n">> \o JoinLines(Drop(lines, 1))

\* len(log_text.encode()): one byte per ASCII character, three for "\u2026"
EncodedLen(s) == Len(s) + 2 * Cardinality({i \in 1..Len(s) : s[i] = Ellipsis})

\* llm.summarise_log: the answer of the first configured provider, or the
\* first 100 characters when none is configured or the call failed
summarise_log(log, ok, answer) ==
    IF ok /\ (Truthy(task_settings.openai_api_key)
              \/ Truthy(task_settings.anthropic_api_key))
    THEN answer
    ELSE Take(log, 100) \o <<"\n", Ellipsis, "\n">>

\* "\n".join(log_text.splitlines()[:100])
Snippet(log) == JoinLines(Take(SplitLines(log), 100))

\* the rendering of a summarised log and of a short log
RenderSummary(summary, snippet) ==
    summary \o <<"\n", "\n", "<", "d", "e", "t", "a", "i", "l", "s", ">", "\n", "<", "s", "u", "m", "m", "a", "r", "y", ">", "F", "i", "r", "s", "t", " ", "1", "0", "0", " ", "l", "i", "n", "e", "s", "<", "/", "s", "u", "m", "m", "a", "r", "y", ">", "\n", "\n">> \o Fence \o <<"t", "e", "x", "t", "\n">> \o snippet \o <<"\n">> \o Fence
    \o <<"\n", "<", "/", "d", "e", "t", "a", "i", "l", "s", ">">>
RenderLog(log) == Fence \o <<"t", "e", "x", "t", "\n">> \o log \o <<"\n">> \o Fence

\* f"### {run['name']}\n\n{rendered}"
Section(name, rendered) == <<"#", "#", "#", " ">> \o name \o <<"\n", "\n">> \o rendered

\* faulty variant: the log is used as downloaded
LogTextRaw(log) == log

\* `log_text = redact_secrets(log_text)`
LogText(log) == redact_secrets(log)

\* faulty variant: logs at the threshold are summarised too
AboveOrAtThreshold(log) == EncodedLen(log) >= task_settings.log_size_threshold

\* `len(log_text.encode()) > settings.log_size_threshold`
AboveThreshold(log) == EncodedLen(log) > task_settings.log_size_threshold

Use(kind, log) == [use |-> kind, run |-> run_no, text |-> log]

InitTask ==
    /\ task_settings \in [openai_api_key : KeyInputs, anthropic_api_key : KeyInputs,
                          log_size_threshold : ThresholdInputs]
    /\ check_runs \in CheckRunInputs
    /\ task_pc = "fetch"
    /\ run_no = 1
    /\ sections = <<>>
    /\ result = NoText
    /\ uses = <<>>
    /\ text = <<>>
    /\ redacted = <<>>
    /\ MergeIdle
    /\ StatusIdle
    /\ PluginsIdle
    /\ SelectIdle

\* _fetch_task_html, _extract_pr_url and _fetch_check_runs: found - the page
\* links a pull request; ok - no request raised
FetchTask ==
    /\ task_pc = "fetch"
    /\ \E found \in BOOLEAN, ok \in BOOLEAN :
         IF ~ok THEN task_pc' = "raised" /\ UNCHANGED result
         ELSE IF ~found
         THEN task_pc' = "returned" /\ result' = <<"P", "R", " ", "U", "R", "L", " ", "n", "o", "t", " ", "f", "o", "u", "n", "d">>
         ELSE task_pc' = "runs" /\ UNCHANGED result
    /\ UNCHANGED <<task_settings, check_runs, run_no, sections, uses,
                   text, redacted, merge_vars, tool_vars>>

\* one pass of `for run in check_runs`
ProcessRun ==
    /\ task_pc = "runs"
    /\ run_no <= Len(check_runs)
    /\ LET run == check_runs[run_no]
       IN  IF run.conclusion \notin FAIL_CONCLUSIONS
           THEN /\ run_no' = run_no + 1
                /\ UNCHANGED <<task_pc, sections, uses>>
           ELSE \E ok \in BOOLEAN :
                IF ~ok
                THEN /\ task_pc' = "raised"
                     /\ UNCHANGED <<run_no, sections, uses>>
                ELSE LET log_text == LogText(run.log)
                     IN  /\ run_no' = run_no + 1
                         /\ UNCHANGED task_pc
                         /\ IF AboveThreshold(log_text)
                            THEN \E llm_ok \in BOOLEAN, answer \in SummaryOutputs :
                                 LET summary == summarise_log(log_text, llm_ok, answer)
                                     snippet == Snippet(log_text)
                                 IN  /\ uses' = uses \o
                                           <<Use("download", run.log), Use("size", log_text),
                                             Use("summarise", log_text),
                                             Use("render", log_text)>>
                                     /\ sections' = Append(sections,
                                           Section(run.name, RenderSummary(summary, snippet)))
                            ELSE /\ uses' = uses \o
                                       <<Use("download", run.log), Use("size", log_text),
                                         Use("render", log_text)>>
                                 /\ sections' = Append(sections,
                                       Section(run.name, RenderLog(log_text)))
    /\ UNCHANGED <<task_settings, check_runs, result, text, redacted, merge_vars,
                   tool_vars>>

\* `return "\n\n".join(sections) or "No failing checks"`
ReturnResult ==
    /\ task_pc = "runs"
    /\ run_no > Len(check_runs)
    /\ result' = IF Join(sections) = <<>> THEN <<"N", "o", " ", "f", "a", "i", "l", "i", "n", "g", " ", "c", "h", "e", "c", "k", "s">> ELSE Join(sections)
    /\ task_pc' = "returned"
    /\ UNCHANGED <<task_settings, check_runs, run_no, sections, uses,
                   text, redacted, merge_vars, tool_vars>>

NextTask ==
    \/ FetchTask
    \/ ProcessRun
    \/ ReturnResult

SpecTask == InitTask /\ [][NextTask]_vars

\* ------------------------------------ _parse_git_status called on its own
MaxEntries == 2

\* paths git reports, one of them with a space
StatusPaths == { <<"a">>, <<"n", " ", "w">> }

\* renamed-from paths
OrigPaths == { <<"o">>, <<"o", " ", "l">> }

\* an entry of `git status`: the XY status, the path, and for a rename or a
\* copy the path it was renamed or copied from (<<>> otherwise)
StatusEntryInputs ==
    [status : { <<" ", "M">>, <<"D", " ">>, <<"?", "?">> },
     path : StatusPaths, orig : { <<>> }]
    \cup
    [status : { <<"R", " ">>, <<"C", " ">>, <<"R", "D">> },
     path : StatusPaths, orig : OrigPaths]

\* git quotes a path that holds a space in the line format, never with -z
QuotePath(p) ==
    IF \E i \in 1..Len(p) : p[i] = " " THEN <<"\"">> \o p \o <<"\"">> ELSE p

\* `git status --porcelain`: "XY path" or "XY orig -> path", one per line
PorcelainLine(e) ==
    e.status \o <<" ">>
    \o (IF e.orig # <<>> THEN QuotePath(e.orig) \o <<" ", "-", ">", " ">> ELSE <<>>)
    \o QuotePath(e.path) \o <<"\n">>

\* `git status --porcelain -z`: "XY path NUL", and for a rename or a copy
\* "XY path NUL orig NUL" (the order of the line format reversed)
PorcelainZ(e) ==
    e.status \o <<" ">> \o e.path \o <<NUL>>
    \o (IF e.orig # <<>> THEN e.orig \o <<NUL>> ELSE <<>>)

RECURSIVE Porcelain(_, _)
Porcelain(entries, mode) ==
    IF entries = <<>> THEN <<>>
    ELSE (IF mode = "z" THEN PorcelainZ(entries[1]) ELSE PorcelainLine(entries[1]))
         \o Porcelain(Drop(entries, 1), mode)

StatusEntryLists ==
    UNION { [1..n -> StatusEntryInputs] : n \in 0..MaxEntries }

InitStatus ==
    /\ status_entries \in StatusEntryLists
    /\ status_mode \in {"z", "line"}
    /\ status_output = Porcelain(status_entries, status_mode)
    /\ parsed_files = <<>>
    /\ status_pc = "start"
    /\ text = <<>>
    /\ redacted = <<>>
    /\ MergeIdle
    /\ TaskIdle
    /\ PluginsIdle
    /\ SelectIdle

\* files = _parse_git_status(proc.stdout)
ParseStatus ==
    /\ status_pc = "start"
    /\ parsed_files' = _parse_git_status(status_output)
    /\ status_pc' = "parsed"
    /\ UNCHANGED <<status_entries, status_mode, status_output, text, redacted,
                   merge_vars, task_vars, plugin_vars, select_vars>>

NextStatus == ParseStatus

SpecStatus == InitStatus /\ [][NextStatus]_vars

\* ------------------------------------------------ f2clipboard._load_plugins
MaxPlugins == 2
MaxLoads == 3

\* an entry point: its name and what loading and calling it does - "ok": the
\* callable returns, "load_error": ep.load() raises, "call_error": the
\* callable raises
EntryPointInputs ==
    [name : {"sample", "other"}, outcome : {"ok", "load_error", "call_error"}]

EntryPointLists ==
    UNION { [1..n -> EntryPointInputs] : n \in 0..MaxPlugins }

\* faulty variant: no plugin counts as loaded
NeverLoaded(name, loaded) == FALSE

\* `ep.name in _loaded_plugins`
AlreadyLoaded(name, loaded) == \E k \in 1..Len(loaded) : loaded[k] = name

\* `for ep in entry_points(...)` from position i on; every exception is
\* caught and logged, and the loop goes on with the next entry point
RECURSIVE LoadFrom(_, _, _, _)
LoadFrom(eps, i, loaded, calls) ==
    IF i > Len(eps) THEN [loaded |-> loaded, calls |-> calls]
    ELSE LET ep == eps[i]
         IN  IF AlreadyLoaded(ep.name, loaded) THEN LoadFrom(eps, i + 1, loaded, calls)
             ELSE IF ep.outcome = "load_error" THEN LoadFrom(eps, i + 1, loaded, calls)
             ELSE IF ep.outcome = "call_error"
             THEN LoadFrom(eps, i + 1, loaded, Append(calls, i))
             ELSE LoadFrom(eps, i + 1, Append(loaded, ep.name), Append(calls, i))

InitPlugins ==
    /\ entry_points \in EntryPointLists
    /\ _loaded_plugins = <<>>
    /\ invoked = <<>>
    /\ load_calls = 0
    /\ text = <<>>
    /\ redacted = <<>>
    /\ MergeIdle
    /\ TaskIdle
    /\ StatusIdle
    /\ SelectIdle

\* one call of _load_plugins(); the first one is made when the package is
\* imported
_load_plugins ==
    /\ load_calls < MaxLoads
    /\ LET r == LoadFrom(entry_points, 1, _loaded_plugins, invoked)
       IN  /\ _loaded_plugins' = r.loaded
           /\ invoked' = r.calls
    /\ load_calls' = load_calls + 1
    /\ UNCHANGED <<entry_points, text, redacted, merge_vars, task_vars,
                   status_vars, select_vars>>

NextPlugins == _load_plugins

SpecPlugins == InitPlugins /\ [][NextPlugins]_vars

\* -------------------------------------------------- f2clipboard.select_files
MaxFiles == 2
MaxChoices == 3

\* a character for which str.isdigit() holds and int() raises ValueError,
\* such as a superscript two
SuperscriptTwo == "SUP2"

OfferedLists ==
    UNION { [1..n -> {"a.txt", "b.txt"}] : n \in 0..MaxFiles }

\* lines the user may type
ChoiceInputs ==
    { <<"d", "o", "n", "e">>, <<"D", "o", "n", "e">>, <<"l", "i", "s", "t">>,
      <<"L", "I", "S", "T">>, <<>>, <<"0">>, <<"1">>, <<"2">>, <<"9">>,
      <<"0", "2">>, <<" ", "1", " ">>, <<"-", "1">>, <<"o", "o", "p", "s">>,
      <<"1", ",", "2">>, <<"2", ",", " ", "1">>, <<"2", ",", "2">>,
      <<"1", ",", "o", "o", "p", "s">>, <<"9", ",", "2">>,
      <<"1", ",", SuperscriptTwo>> }

\* str.isdigit()
IsDigit(s) == s # <<>> /\ \A i \in 1..Len(s) : s[i] \in Digits \cup {SuperscriptTwo}

\* int() accepts the text
IntOk(s) == s # <<>> /\ \A i \in 1..Len(s) : s[i] \in Digits

DigitValue(c) ==
    CHOOSE v \in 0..9 : <<"0", "1", "2", "3", "4", "5", "6", "7", "8", "9">>[v + 1] = c

\* int(s) of a text of decimal digits
RECURSIVE ToInt(_)
ToInt(s) ==
    IF s = <<>> THEN 0
    ELSE 10 * ToInt(SubSeq(s, 1, Len(s) - 1)) + DigitValue(s[Len(s)])

\* [x.strip() for x in choice.split(",") if x.strip().isdigit()]
NumberTexts(line) ==
    LET parts == Split(line, ",")
        stripped == [k \in 1..Len(parts) |-> Strip(parts[k])]
    IN  SelectSeq(stripped, IsDigit)

\* files[index] of Python: a negative index counts from the end
PyIndex(listed, index) ==
    IF index < 0 THEN listed[Len(listed) + index + 1] ELSE listed[index + 1]

\* faulty variant: no lower bound
BelowLen(index, listed) == index < Len(listed)

\* `0 <= index < len(files)`
InRange(index, listed) == 0 <= index /\ index < Len(listed)

\* `for index in indices`
RECURSIVE AddIndices(_, _, _)
AddIndices(indices, listed, selected) ==
    IF indices = <<>> THEN selected
    ELSE LET index == indices[1]
             next  == IF InRange(index, listed)
                         /\ \A k \in 1..Len(selected) :
                                selected[k] # PyIndex(listed, index)
                      THEN Append(selected, PyIndex(listed, index))
                      ELSE selected
         IN  AddIndices(Drop(indices, 1), listed, next)

\* the else branch of the loop: the list comprehension raises ValueError
\* before any file is added when int() rejects one of the texts
AddChoice(line, listed, selected) ==
    LET texts == NumberTexts(line)
    IN  IF \E k \in 1..Len(texts) : ~IntOk(texts[k]) THEN selected
        ELSE AddIndices([k \in 1..Len(texts) |-> ToInt(texts[k]) - 1], listed, selected)

InitSelect ==
    /\ offered \in OfferedLists
    /\ selected_files = <<>>
    /\ choice = NoText
    /\ choices = 0
    /\ select_pc = "start"
    /\ text = <<>>
    /\ redacted = <<>>
    /\ MergeIdle
    /\ TaskIdle
    /\ StatusIdle
    /\ PluginsIdle

\* up to the first prompt: no file means an empty list without any prompt
StartSelect ==
    /\ select_pc = "start"
    /\ select_pc' = IF offered = <<>> THEN "returned" ELSE "input"
    /\ UNCHANGED <<offered, selected_files, choice, choices, text, redacted,
                   merge_vars, task_vars, status_vars, plugin_vars>>

\* one pass of `while True`; the last line a user can type here is 'done'
ReadChoice ==
    /\ select_pc = "input"
    /\ \E line \in ChoiceInputs :
         /\ choices < MaxChoices \/ Lower(line) = <<"d", "o", "n", "e">>
         /\ choice' = line
         /\ IF Lower(line) = <<"d", "o", "n", "e">>
            THEN select_pc' = "returned" /\ UNCHANGED selected_files
            ELSE IF Lower(line) = <<"l", "i", "s", "t">>
            THEN UNCHANGED <<select_pc, selected_files>>
            ELSE /\ selected_files' = AddChoice(line, offered, selected_files)
                 /\ UNCHANGED select_pc
    /\ choices' = choices + 1
    /\ UNCHANGED <<offered, text, redacted, merge_vars, task_vars, status_vars,
                   plugin_vars>>

NextSelect ==
    \/ StartSelect
    \/ ReadChoice

SpecSelect == InitSelect /\ [][NextSelect]_vars

\* ================================================================ properties
IsGit(c, sub) == c.argv[1] = "git" /\ c.argv[2] = sub
IsMergeAttempt(c) == IsGit(c, "merge") /\ c.argv[3] = "--no-commit"
IsAbort(c) == IsGit(c, "merge") /\ c.argv[3] = "--abort"
IsLlm(r) == r.kind \in {"openai", "anthropic"}
IsCommentPost(r) == r.kind = "POST comments"

MergeAttempts == SelectSeq(commands, IsMergeAttempt)
Tried == [i \in 1..Len(MergeAttempts) |-> MergeAttempts[i].argv[5]]
Said(msg) == \E i \in 1..Len(echoed) : echoed[i].msg = msg

\* the loop over the strategies has run to its end or to its break
AllFailed == pc = "failed"
             \/ Said("Automatic merge strategies failed. Manual intervention required.")
LoopOver == command = "merge-resolve" /\ (succeeded # None \/ AllFailed)

\* C1: strategy `both` tries `ours` and then, only if that merge failed,
\* `theirs`; no merge is attempted after one that succeeded; `ours` and
\* `theirs` make exactly one attempt.
C1_StrategyOrder ==
    /\ \A i \in 1..(Len(MergeAttempts) - 1) : MergeAttempts[i].rc # 0
    /\ strategy = "both" => Tried \in {<<>>, <<"ours">>, <<"ours", "theirs">>}
    /\ strategy # "both" => Tried \in {<<>>, <<strategy>>}
    /\ LoopOver =>
         /\ Tried # <<>>
         /\ (strategy = "both" /\ MergeAttempts[1].rc # 0) => Len(Tried) = 2

C1_Witness ==
    /\ pc = "done" /\ strategy = "both" /\ Tried = <<"ours", "theirs">>
    /\ MergeAttempts[1].rc # 0 /\ MergeAttempts[2].rc = 0

\* C2: when the clean-worktree check fails (MERGE_HEAD exists, or git status
\* prints any change) the command exits non-zero in that step and has issued
\* no merge, abort, fetch or checkout, no LLM call and no PR comment; nothing
\* happens after the exit.
NoSideEffects ==
    /\ \A i \in 1..Len(commands) :
         ~(IsGit(commands[i], "merge") \/ IsGit(commands[i], "fetch")
           \/ IsGit(commands[i], "checkout"))
    /\ requests = <<>>
    /\ posted = <<>>

C2_DirtyTreeStops ==
    [][/\ (pc = "clean_check" /\ pc' # "clean_check"
           /\ (merge_head \/ Strip(commands'[Len(commands')].stdout) # <<>>))
          => (pc' = "done" /\ exit_code' # 0 /\ NoSideEffects')
       /\ pc = "done" => UNCHANGED vars]_vars

C2_Witness ==
    /\ pc = "done" /\ exit_code = 1 /\ Len(commands) = 1
    /\ commands[1].argv = GitStatus
    /\ commands[1].stdout = <<"?", "?", " ", "u", "\n">>

\* C3: after every failed merge attempt that _attempt_merge returned from, a
\* successful `git merge --abort` has run: the next attempt directly follows
\* an abort with exit code 0, and MERGE_HEAD is gone when the next strategy is
\* attempted and when the command ends after all strategies failed.
C3_AbortRestores ==
    /\ \A i \in 2..Len(commands) :
         (IsMergeAttempt(commands[i]) /\ \E j \in 1..(i - 1) : IsMergeAttempt(commands[j]))
         => (IsAbort(commands[i - 1]) /\ commands[i - 1].rc = 0)
    /\ ((pc = "merge" /\ idx > 1) \/ AllFailed)
       => /\ ~merge_head
          /\ IsAbort(commands[Len(commands)])
          /\ commands[Len(commands)].rc = 0

C3_Witness ==
    /\ pc = "merge" /\ idx = 2 /\ ~merge_head
    /\ Len(MergeAttempts) = 1 /\ MergeAttempts[1].rc # 0

\* C4: a non-zero `git merge --abort` ends the command at once with a non-zero
\* exit code: it is the last command, and there is no LLM call and no PR
\* comment.
C4_AbortFailureHalts ==
    \A i \in 1..Len(commands) :
      (IsAbort(commands[i]) /\ commands[i].rc # 0)
      => /\ i = Len(commands)
         /\ pc = "done" /\ exit_code # 0
         /\ succeeded = None
         /\ ~AllFailed
         /\ posted = <<>>
         /\ \A k \in 1..Len(requests) : ~IsLlm(requests[k]) /\ ~IsCommentPost(requests[k])

C4_Witness ==
    /\ pc = "done" /\ strategy = "both" /\ pr_number # None
    /\ Len(MergeAttempts) = 1
    /\ IsAbort(commands[Len(commands)]) /\ commands[Len(commands)].rc # 0

IsPreCommit(c) == c.argv[1] = "pre-commit"
IsPytest(c) == c.argv[1] = "pytest"
IsStatusZ(c) == IsGit(c, "status") /\ Len(c.argv) = 4
PreCommits == SelectSeq(commands, IsPreCommit)
Pytests == SelectSeq(commands, IsPytest)
LastCommand == commands[Len(commands)]
Bodies == [i \in 1..Len(posted) |-> posted[i].body]
PrSupplied == pr \notin {None, ""}

\* merge-resolve is over and its merge succeeded
EndedMerged == command = "merge-resolve" /\ pc = "done" /\ succeeded # None
\* ... and the checks ran and failed / did not fail
ChecksFailed == EndedMerged /\ run_checks /\ ~(IsPytest(LastCommand) /\ LastCommand.rc = 0)
\* the exit code of the failing check; 1 when the modified files are unknown
FailedCheckCode == IF IsPreCommit(LastCommand) \/ IsPytest(LastCommand)
                   THEN LastCommand.rc ELSE 1

\* C5 as stated: 0 on success, the failing check's code on a validation
\* failure, and exactly 1 on every other failure.
C5_ExitOneOnEveryFailure ==
    (command = "merge-resolve" /\ pc = "done") =>
       IF EndedMerged
       THEN exit_code = (IF ChecksFailed THEN FailedCheckCode ELSE 0)
       ELSE exit_code = 1

\* C5 amended: 0 on success; the failing check's code on a validation
\* failure; the non-zero exit code of the git command itself when git status,
\* the PR fetch, the checkout or the abort failed; 1 for a merge in progress,
\* a dirty tree, an invalid PR identifier, an unusable origin remote and when
\* all strategies failed.
C5_ExitCodes ==
    (command = "merge-resolve" /\ pc = "done") =>
       IF EndedMerged
       THEN exit_code = (IF ChecksFailed THEN FailedCheckCode ELSE 0)
       ELSE IF commands # <<>> /\ LastCommand.rc # 0
               /\ (IsGit(LastCommand, "status") \/ IsGit(LastCommand, "fetch")
                   \/ IsGit(LastCommand, "checkout") \/ IsAbort(LastCommand))
       THEN exit_code = LastCommand.rc
       ELSE exit_code = 1

C5_Witness ==
    /\ command = "merge-resolve" /\ pc = "done" /\ exit_code = 2
    /\ IsAbort(LastCommand) /\ LastCommand.rc = 2

\* C6: a pre-commit run that exits with c # 0 is the last command of
\* merge_checks_command (pytest never runs) and the command exits with c.
C6_PreCommitFailureStops ==
    \A i \in 1..Len(commands) :
      (IsPreCommit(commands[i]) /\ commands[i].rc # 0)
      => /\ i = Len(commands)
         /\ IF command = "merge-checks"
            THEN pc = "done" /\ exit_code = commands[i].rc
            ELSE pc \in {"checks_done", "done"} /\ checks_exit = commands[i].rc

C6_Witness ==
    /\ command = "merge-checks" /\ pc = "done" /\ exit_code = 2
    /\ IsPreCommit(LastCommand) /\ LastCommand.rc = 2
    /\ Pytests = <<>>

\* C7: once merge_checks_command has run with a known list of target files:
\* an empty list means no pre-commit call and one pytest call; a non-empty
\* list means one pre-commit call, on exactly those files, before any pytest.
ChecksRan ==
    \/ command = "merge-checks" /\ pc = "done"
    \/ command = "merge-resolve" /\ pc = "checks_done"
    \/ EndedMerged /\ run_checks

C7_PreCommitOnlyWithFiles ==
    (ChecksRan /\ ~\E i \in 1..Len(commands) : IsStatusZ(commands[i]) /\ commands[i].rc # 0)
    => /\ files # <<>> => Len(target_files) = Len(files)
       /\ (files = <<>> /\ \E i \in 1..Len(commands) :
              IsStatusZ(commands[i]) /\ commands[i].stdout = <<>>) => target_files = <<>>
       /\ IF target_files = <<>>
          THEN PreCommits = <<>> /\ Len(Pytests) = 1
          ELSE /\ Len(PreCommits) = 1
               /\ PreCommits[1].argv = <<"pre-commit", "run", "--files">> \o target_files
               /\ Len(Pytests) <= 1
               /\ \A i, j \in 1..Len(commands) :
                    (IsPreCommit(commands[i]) /\ IsPytest(commands[j])) => i < j

C7_Witness ==
    /\ command = "merge-checks" /\ pc = "done" /\ files = <<>>
    /\ target_files = <<>>
    /\ Len(commands) = 2 /\ IsStatusZ(commands[1]) /\ commands[1].stdout # <<>>
    /\ IsPytest(commands[2])

\* C8: after a successful merge, failed checks make merge-resolve exit with
\* the checks' exit code c, and with a PR the one comment is the failure
\* comment naming c; passed or skipped checks make it exit 0, and with a PR
\* the one comment is the success comment. The comment goes out as an HTTP
\* POST when a GitHub token is configured.
C8_ChecksOutcomeReported ==
    EndedMerged =>
      LET body == IF ChecksFailed THEN ChecksFailedBody(succeeded, FailedCheckCode)
                  ELSE IF run_checks THEN ChecksPassedBody(succeeded)
                  ELSE ChecksSkippedBody(succeeded)
      IN  /\ exit_code = (IF ChecksFailed THEN FailedCheckCode ELSE 0)
          /\ ChecksFailed => FailedCheckCode # 0
          /\ Bodies = (IF PrSupplied THEN <<body>> ELSE <<>>)
          /\ (PrSupplied /\ HasToken(settings.github_token))
             => \E k \in 1..Len(requests) :
                  IsCommentPost(requests[k]) /\ requests[k].body = body

C8_Witness ==
    /\ EndedMerged /\ ChecksFailed /\ PrSupplied /\ exit_code = 2
    /\ Bodies = <<ChecksFailedBody(succeeded, 2)>>
    /\ IsCommentPost(requests[Len(requests)])

C10_LookupFailureNotFatal ==
    (requests # <<>> /\ requests[1].kind = "GET pulls") =>
       LET lookup   == requests[1]
           expected == IF lookup.ok /\ lookup.ref = "develop"
                       THEN "origin/develop" ELSE "origin/main"
       IN  /\ pc # "checkout" => \E i \in 1..Len(commands) : IsGit(commands[i], "fetch")
           /\ ((\E i \in 1..Len(commands) :
                   IsGit(commands[i], "checkout") /\ commands[i].rc = 0)
               /\ pc # "merge") => MergeAttempts # <<>>
           /\ base = None =>
                \A i \in 1..Len(MergeAttempts) : MergeAttempts[i].argv[6] = expected
           /\ \A i, j \in 1..Len(MergeAttempts) :
                MergeAttempts[i].argv[6] = MergeAttempts[j].argv[6]

C10_Witness ==
    /\ requests # <<>> /\ requests[1].kind = "GET pulls" /\ ~requests[1].ok
    /\ base = None /\ Len(MergeAttempts) = 2
    /\ \A i \in 1..2 : MergeAttempts[i].argv[6] = "origin/main"

IsFetch(c) == IsGit(c, "fetch")
IsCheckout(c) == IsGit(c, "checkout")
Fetches == SelectSeq(commands, IsFetch)
Checkouts == SelectSeq(commands, IsCheckout)

\* C11: merge-resolve runs its phases in the order clean check, PR fetch and
\* checkout, merge attempts. The first command is `git status --porcelain`.
\* Without a PR nothing is fetched or checked out. With a PR there is at most
\* one fetch, of pull/<n>/head into pr-<n>, and the checkout of pr-<n> comes
\* directly after a successful fetch; every merge attempt comes after a
\* successful checkout. A failed fetch or a failed checkout is the last
\* command: the command is over with a non-zero exit code and no merge was
\* attempted.
C11_PhaseOrder ==
    command = "merge-resolve" =>
      /\ commands # <<>> => commands[1].argv = GitStatus
      /\ ~PrSupplied => (Fetches = <<>> /\ Checkouts = <<>>)
      /\ Len(Fetches) <= 1 /\ Len(Checkouts) <= 1
      /\ \A i \in 1..Len(commands) :
           /\ IsFetch(commands[i]) =>
                /\ i > 1
                /\ \A j \in 1..(i - 1) :
                     IsGit(commands[j], "status") \/ IsGit(commands[j], "config")
                /\ commands[i].argv = GitFetch(pr_number)
                /\ commands[i].argv[5] \in {"pull/123/head:pr-123", "pull/42/head:pr-42"}
                /\ commands[i].rc # 0 =>
                     /\ i = Len(commands) /\ pc = "done" /\ exit_code # 0
                     /\ Checkouts = <<>> /\ MergeAttempts = <<>>
           /\ IsCheckout(commands[i]) =>
                /\ i > 1 /\ IsFetch(commands[i - 1]) /\ commands[i - 1].rc = 0
                /\ commands[i].argv = GitCheckout(PrBranch(pr_number))
                /\ commands[i].argv[3] \in {"pr-123", "pr-42"}
                /\ commands[i].rc # 0 =>
                     /\ i = Len(commands) /\ pc = "done" /\ exit_code # 0
                     /\ MergeAttempts = <<>>
           /\ IsMergeAttempt(commands[i]) =>
                /\ i > 1
                /\ PrSupplied =>
                     \E k \in 1..(i - 1) : IsCheckout(commands[k]) /\ commands[k].rc = 0
      /\ (PrSupplied /\ pc \in {"merge", "succeeded", "failed", "checks", "checks_done"})
         => Len(Checkouts) = 1

C11_Witness ==
    /\ command = "merge-resolve" /\ PrSupplied /\ pc = "done" /\ exit_code = 2
    /\ IsFetch(LastCommand) /\ LastCommand.rc = 2

NoCredential == ~Truthy(settings.openai_api_key) /\ ~Truthy(settings.anthropic_api_key)
Guidance == "Configure OPENAI_API_KEY or ANTHROPIC_API_KEY"

\* C12: when neither OPENAI_API_KEY nor ANTHROPIC_API_KEY is configured and
\* every merge strategy failed, merge-resolve has shown the guidance to
\* configure one of them and exits with code 1, whether or not a conflict
\* diff was captured.
C12_GuidanceWithoutCredential ==
    (command = "merge-resolve" /\ pc = "done" /\ AllFailed /\ NoCredential)
    => (Said(Guidance) /\ exit_code = 1)

LlmRequests == SelectSeq(requests, IsLlm)

\* C13: one invocation sends at most one LLM request; a request is sent only
\* with a combined conflict diff that is not blank and with a key configured,
\* and it carries that diff; it goes to OpenAI when the OpenAI key is set and
\* to Anthropic only when the Anthropic key alone is set, also when the
\* OpenAI call failed.
C13_OneProviderOnce ==
    /\ Len(LlmRequests) <= 1
    /\ \A k \in 1..Len(LlmRequests) :
         LET r == LlmRequests[k]
         IN  /\ AllFailed
             /\ r.diff = Join(conflict_diffs)
             /\ Strip(r.diff) # <<>>
             /\ ~NoCredential
             /\ r.kind = (IF settings.openai_api_key = "key" THEN "openai" ELSE "anthropic")
             /\ r.kind = "anthropic" => settings.anthropic_api_key = "key"

C13_Witness ==
    /\ pc = "done"
    /\ settings.openai_api_key = "key" /\ settings.anthropic_api_key = "key"
    /\ Len(LlmRequests) = 1
    /\ LlmRequests[1].kind = "openai" /\ ~LlmRequests[1].ok

FailureNotice == "Failed to generate a patch suggestion automatically."

\* C14: an LLM call that raised is treated like one that returned nothing:
\* the command ends normally, prints the failure notice and no patch, calls
\* _post_pr_comment once with the failure body when a PR was supplied (an HTTP
\* POST when a token is configured), and exits with code 1.
C14_LlmErrorIsNoSuggestion ==
    \A k \in 1..Len(LlmRequests) :
      LET r == LlmRequests[k]
      IN  (~r.ok \/ r.answer \in {NoText, <<>>}) =>
            /\ pc = "done" /\ exit_code = 1
            /\ Said(FailureNotice)
            /\ ~Said("Suggested patch") /\ ~Said("patch")
            /\ Bodies = (IF PrSupplied THEN <<FailureBody>> ELSE <<>>)
            /\ (PrSupplied /\ HasToken(settings.github_token))
               => \E j \in (k + 1)..Len(requests) :
                    IsCommentPost(requests[j]) /\ requests[j].body = FailureBody

C14_Witness ==
    /\ pc = "done" /\ exit_code = 1 /\ PrSupplied
    /\ Len(LlmRequests) = 1 /\ ~LlmRequests[1].ok
    /\ Said(FailureNotice) /\ Bodies = <<FailureBody>>
    /\ IsCommentPost(requests[Len(requests)])

SkipNotice == "Skipping PR comment because GITHUB_TOKEN is not configured"

\* C15: a call of _post_pr_comment with a token that is missing, empty or
\* only whitespace sends no HTTP request; it prints that the comment is
\* skipped, prints no posting warning, and the command goes on to its normal
\* exit code.
C15_NoTokenNoRequest ==
    \A i \in 1..Len(posted) :
      posted[i].token \in {NoText, <<>>, <<" ">>} =>
        /\ \A k \in 1..Len(requests) : ~IsCommentPost(requests[k])
        /\ Said(SkipNotice)
        /\ ~Said("Warning: Failed to post PR comment")
        /\ ~Said("Posted merge summary comment to the PR")
        /\ pc = "done"
        /\ exit_code = (IF succeeded = None THEN 1
                        ELSE IF ChecksFailed THEN FailedCheckCode ELSE 0)

C15_Witness ==
    /\ pc = "done" /\ Len(posted) = 1 /\ posted[1].token = <<" ">>
    /\ Said(SkipNotice)
    /\ \A k \in 1..Len(requests) : ~IsCommentPost(requests[k])

\* how the call of _post_pr_comment ended, read from the logs
ReportingOutcome ==
    IF posted[1].token \in {NoText, <<>>, <<" ">>} THEN "skipped"
    ELSE IF \E k \in 1..Len(requests) : IsCommentPost(requests[k]) /\ requests[k].ok
    THEN "posted" ELSE "failed"

\* the exit code that the merge and the validation alone call for
MergeOutcomeCode ==
    IF succeeded = None THEN 1
    ELSE IF ChecksFailed THEN FailedCheckCode ELSE 0

\* C16: the exit code of merge-resolve is a function of the merge and
\* validation outcomes alone: whether the PR comment was posted, skipped for
\* lack of a token or failed in transport, the command exits with the code
\* those outcomes call for.
C16_ExitIgnoresReporting ==
    (command = "merge-resolve" /\ pc = "done" /\ posted # <<>>) =>
       \A outcome \in {"posted", "skipped", "failed"} :
          ReportingOutcome = outcome => exit_code = MergeOutcomeCode

C16_Witness ==
    /\ command = "merge-resolve" /\ pc = "done" /\ posted # <<>>
    /\ ReportingOutcome = "failed" /\ succeeded # None /\ exit_code = 0
    /\ IsCommentPost(requests[Len(requests)]) /\ ~requests[Len(requests)].ok

\* C17: redact_secrets is idempotent: a second call on the result of the
\* first changes nothing, also when a token is directly followed by more
\* letters or digits.
C17_Idempotent ==
    Len(redacted) >= 2 => redacted[2] = redacted[1]

C19_QuotedValueRedacted ==
    Len(redacted) >= 1 =>
      \A around \in Surroundings, key \in CredentialKeys, pre \in Gaps,
         sep \in Separators, post \in Gaps, quote \in {<<"\"">>, <<"'">>} :
        text = AssignmentText(around, key, pre, sep, post, quote, LongValue)
        => /\ redacted[1] = around.before \o key \o pre \o <<sep>> \o post
                            \o quote \o <<"*", "*", "*">> \o quote \o around.after
           /\ ~Contains(redacted[1], LongValue)

\* C20: in _process_task every use of a downloaded log after the download
\* (the size test against the threshold, the call of summarise_log, the
\* rendering) is on redact_secrets of what was downloaded for that run, and
\* each download is followed by the size test; the secrets of the downloaded
\* logs are in no section and not in the returned Markdown.
C20_LogsRedactedBeforeUse ==
    /\ \A i \in 1..Len(uses) :
         IF uses[i].use = "download"
         THEN i < Len(uses) /\ uses[i + 1].use = "size" /\ uses[i + 1].run = uses[i].run
         ELSE \E j \in 1..(i - 1) :
                /\ uses[j].use = "download" /\ uses[j].run = uses[i].run
                /\ uses[i].text = redact_secrets(uses[j].text)
    /\ \A i \in 1..Len(sections) :
         ~Contains(sections[i], LongValue) /\ ~Contains(sections[i], Rep("a", 36))
    /\ result # NoText =>
         /\ ~Contains(result, LongValue) /\ ~Contains(result, Rep("a", 36))
         /\ \A i \in 1..Len(uses) :
              uses[i].use = "render" => Contains(result, Snippet(uses[i].text))

C20_Witness ==
    /\ task_pc = "returned"
    /\ \E i \in 1..Len(uses) : uses[i].use = "download" /\ uses[i].text = <<"T", "O", "K", "E", "N", "=", "a", "b", "c", "d", "e", "f", "1", "2", "3", "4", "5", "6">>
    /\ \E i \in 1..Len(uses) : uses[i].use = "summarise" /\ uses[i].text = <<"T", "O", "K", "E", "N", "=", "*", "*", "*">>
    /\ Contains(result, <<"T", "O", "K", "E", "N", "=", "*", "*", "*">>)

\* the paths of the entries whose status holds no 'D', in order; the path of
\* a rename or copy entry is the path renamed or copied to
RECURSIVE PathsKept(_)
PathsKept(entries) ==
    IF entries = <<>> THEN <<>>
    ELSE (IF \E i \in 1..2 : entries[1].status[i] = "D"
          THEN <<>> ELSE <<entries[1].path>>)
         \o PathsKept(Drop(entries, 1))

\* C21: _parse_git_status returns, in input order, the path of every status
\* entry whose two-character status contains no 'D', and for a rename or copy
\* entry the renamed-to path.
C21_ParsedPaths ==
    status_pc = "parsed" => parsed_files = PathsKept(status_entries)

\* how often the callable of entry point i was called on the app
TimesInvoked(i) == Cardinality({k \in 1..Len(invoked) : invoked[k] = i})

NamesOnce ==
    \A j, k \in 1..Len(_loaded_plugins) :
        _loaded_plugins[j] = _loaded_plugins[k] => j = k

NumbersTyped(line) ==
    IF line = <<"0">> THEN {0}
    ELSE IF line \in { <<"1">>, <<" ", "1", " ">>, <<"1", ",", "o", "o", "p", "s">> } THEN {1}
    ELSE IF line \in { <<"2">>, <<"0", "2">>, <<"2", ",", "2">> } THEN {2}
    ELSE IF line = <<"9">> THEN {9}
    ELSE IF line \in { <<"1", ",", "2">>, <<"2", ",", " ", "1">> } THEN {1, 2}
    ELSE IF line = <<"9", ",", "2">> THEN {9, 2}
    ELSE {}

IsPrefixOf(s, t) == Len(s) <= Len(t) /\ SubSeq(t, 1, Len(s)) = s

Members(s) == {s[k] : k \in 1..Len(s)}

\* a line that names no file: 'list', no number in it, or only numbers
\* outside 1..len(files)
NamesNoFile(line) == \A n \in NumbersTyped(line) : n < 1 \/ n > Len(offered)

\* a line whose numbers all name files selected before
NamesOnlySelected(line) ==
    \A n \in NumbersTyped(line) :
        n \in 1..Len(offered) => offered[n] \in Members(selected_files)

\* C23: select_files returns a list without duplicates whose elements are
\* offered files, ordered by first selection (the list only grows at its
\* end); 'list', non-numeric lines and out-of-range numbers, 0 included,
\* never change the selection, and neither does selecting a selected file.
C23_Selection ==
    /\ [](/\ \A j, k \in 1..Len(selected_files) :
                selected_files[j] = selected_files[k] => j = k
          /\ Members(selected_files) \subseteq Members(offered))
    /\ [][/\ IsPrefixOf(selected_files, selected_files')
          /\ choice' # choice \/ choices' # choices =>
                /\ NamesNoFile(choice') => selected_files' = selected_files
                /\ NamesOnlySelected(choice') => selected_files' = selected_files
                /\ \A n \in NumbersTyped(choice') :
                       n \in 1..Len(offered) => offered[n] \in Members(selected_files')]_vars

\* both files selected in the order 2, 1 over three lines, the last 'done'
C23_Witness ==
    /\ select_pc = "returned"
    /\ offered = <<"a.txt", "b.txt">>
    /\ selected_files = <<"b.txt", "a.txt">>
    /\ choices = 3
    /\ Lower(choice) = <<"d", "o", "n", "e">>

\* positions in uses at which run r's log was put to the given use
UsesOf(r, kind) == {i \in 1..Len(uses) : uses[i].run = r /\ uses[i].use = kind}

\* the size of a text in bytes of UTF-8
Bytes(s) == Len(s) + 2 * Cardinality({i \in 1..Len(s) : s[i] = "ELLIPSIS"})

Renders == SelectSeq(uses, LAMBDA u : u.use = "render")

Details == <<"<", "d", "e", "t", "a", "i", "l", "s", ">">>

\* C24: a log is downloaded only for check runs that concluded failure,
\* timed_out, cancelled or action_required; summarise_log is called for a run
\* exactly when its redacted log is more than log_size_threshold bytes long,
\* and otherwise the whole log is rendered, without any summary.
C24_SummariseAboveThreshold ==
    /\ \A r \in 1..Len(check_runs) :
         /\ UsesOf(r, "download") # {} =>
                check_runs[r].conclusion \in
                    {"failure", "timed_out", "cancelled", "action_required"}
         /\ Cardinality(UsesOf(r, "summarise")) <= 1
         /\ UsesOf(r, "summarise") # {} => UsesOf(r, "size") # {}
         /\ \A i \in UsesOf(r, "size") :
                /\ uses[i].text = redact_secrets(check_runs[r].log)
                /\ UsesOf(r, "summarise") # {}
                       <=> Bytes(uses[i].text) > task_settings.log_size_threshold
    /\ Len(sections) = Len(Renders)
    /\ \A k \in 1..Len(Renders) :
         IF UsesOf(Renders[k].run, "summarise") # {}
         THEN Contains(sections[k], Details)
         ELSE /\ ~Contains(sections[k], Details)
              /\ Contains(sections[k],
                          <<"t", "e", "x", "t", "\n">> \o Renders[k].text \o <<"\n">>)

\* threshold 12: a 13-byte log of 11 characters summarised, a log that is 18
\* bytes long before and 9 after redaction rendered whole
C24_Witness ==
    /\ task_pc = "returned"
    /\ task_settings.log_size_threshold = 12
    /\ Len(check_runs) = 2
    /\ Len(check_runs[1].log) = 11
    /\ Len(check_runs[2].log) = 18
    /\ UsesOf(1, "summarise") # {}
    /\ UsesOf(2, "summarise") = {}
    /\ UsesOf(2, "render") # {}

IsConflictDiff(c) == c.argv = <<"git", "--no-pager", "diff", "--diff-filter=U">>
FailedMerges == {i \in 1..Len(commands) : IsMergeAttempt(commands[i]) /\ commands[i].rc # 0}
Aborts == {i \in 1..Len(commands) : IsAbort(commands[i])}

\* C25: a failed merge attempt runs merge, conflict-diff capture and abort
\* in this order, one directly after the other, and the abort is issued
\* exactly once for every failed merge, whatever the diff capture gave.
C25_MergeDiffAbort ==
    /\ \A i \in FailedMerges :
         /\ i + 2 <= Len(commands)
         /\ IsConflictDiff(commands[i + 1])
         /\ IsAbort(commands[i + 2])
    /\ \A j \in Aborts : j > 2 /\ (j - 2) \in FailedMerges
    /\ Cardinality(Aborts) = Cardinality(FailedMerges)
    /\ \A k \in 1..Len(commands) :
         IsConflictDiff(commands[k]) => k > 1 /\ (k - 1) \in FailedMerges

\* both strategies failed, one diff capture failed and one printed only
\* whitespace, and each merge was aborted
C25_Witness ==
    /\ AllFailed
    /\ Cardinality(FailedMerges) = 2
    /\ Cardinality(Aborts) = 2
    /\ \E k \in 1..Len(commands) : IsConflictDiff(commands[k]) /\ commands[k].rc # 0
    /\ \E k \in 1..Len(commands) :
         IsConflictDiff(commands[k]) /\ commands[k].rc = 0 /\ commands[k].stdout = <<" ", "\n">>

MergedAt == {i \in 1..Len(commands) : IsMergeAttempt(commands[i]) /\ commands[i].rc = 0}

\* C26: a successful `git merge --no-commit` is left staged: no
\* `git merge --abort`, no commit, no further merge command and no conflict
\* diff follows it, and the attempt counts as the success of its strategy,
\* adding nothing to the captured diffs.
C26_MergeLeftStaged ==
    /\ \A i \in MergedAt :
         /\ \A j \in (i + 1)..Len(commands) :
              /\ ~IsGit(commands[j], "merge")
              /\ ~IsGit(commands[j], "commit")
              /\ ~IsConflictDiff(commands[j])
         /\ succeeded = commands[i].argv[5]
         /\ Len(conflict_diffs) <= Cardinality(FailedMerges)
    /\ Cardinality(MergedAt) <= 1
    /\ (command = "merge-resolve" /\ succeeded # None) => MergedAt # {}

\* the second strategy merged after the first failed, and the command ended
\* after running the checks
C26_Witness ==
    /\ pc = "done"
    /\ succeeded = "theirs"
    /\ Cardinality(FailedMerges) = 1
    /\ MergedAt # {}
    /\ \E i \in MergedAt : i < Len(commands)

\* the conflict diffs captured by the failed attempts, in attempt order
CapturedDiffs ==
    LET taken == SelectSeq(commands,
                     LAMBDA c : IsConflictDiff(c) /\ c.rc = 0 /\ Strip(c.stdout) # <<>>)
    IN  [k \in 1..Len(taken) |-> Strip(taken[k].stdout)]

\* the texts separated by an empty line
RECURSIVE Concatenated(_)
Concatenated(diffs) ==
    IF diffs = <<>> THEN <<>>
    ELSE IF Len(diffs) = 1 THEN diffs[1]
    ELSE diffs[1] \o <<"\n", "\n">> \o Concatenated(Drop(diffs, 1))

\* C27: when all strategies failed and a conflict diff was captured, the
\* user is shown the diff (or a text containing it), whether a patch
\* suggestion was produced or not, and the diff handed to the patch
\* suggestion is the concatenation of the diffs of all failed attempts in
\* attempt order.
C27_DiffEmitted ==
    (pc = "done" /\ AllFailed /\ CapturedDiffs # <<>>)
    => /\ \E i \in 1..Len(echoed) : Contains(echoed[i].text, Concatenated(CapturedDiffs))
       /\ \A k \in 1..Len(requests) :
            IsLlm(requests[k]) => requests[k].diff = Concatenated(CapturedDiffs)

TokenAssigned == <<"t", "o", "k", "e", "n", "=">>

\* the token of test_redact_secrets
GithubToken == <<"g", "h", "p", "_">> \o Rep("a", 36)

\* C28 as stated: where more than one pattern can match, the placeholder of
\* the earlier pattern is what the final output shows: a GitHub token that
\* is the value of a 'token=' assignment comes out as ghp_REDACTED.
C28_FirstPatternWins ==
    (redacted # <<>> /\ text = TokenAssigned \o GithubToken)
        => Contains(redacted[1], <<"g", "h", "p", "_", "R", "E", "D", "A", "C", "T", "E", "D">>)

\* merge_checks_command called without files starts with `git status
\* --porcelain -z`: one such command per invocation of the checks
ChecksStarted == {i \in 1..Len(commands) : IsStatusZ(commands[i])}

\* C29: merge-resolve invokes the merge checks at most once, only when
\* checks are enabled and after a merge strategy succeeded; no check command
\* runs on a path where no strategy succeeded (all failed, precondition,
\* PR fetch, checkout or abort failure).
C29_ChecksOnceAfterSuccess ==
    command = "merge-resolve" =>
        /\ Cardinality(ChecksStarted) <= 1
        /\ \A i \in ChecksStarted :
             /\ run_checks
             /\ \E j \in MergedAt : j < i
        /\ \A k \in 1..Len(commands) :
             (IsPreCommit(commands[k]) \/ IsPytest(commands[k]))
                 => \E i \in ChecksStarted : i < k
        /\ MergedAt = {} => ChecksStarted = {}
        /\ (pc = "done" /\ MergedAt # {} /\ run_checks) => ChecksStarted # {}

\* 'both' with checks: ours failed, theirs merged, then the checks ran once
C29_Witness ==
    /\ command = "merge-resolve" /\ pc = "done" /\ run_checks
    /\ Cardinality(FailedMerges) = 1
    /\ Cardinality(ChecksStarted) = 1
    /\ IsPytest(LastCommand)

CommentPosts == {k \in 1..Len(requests) : IsCommentPost(requests[k])}

\* the message that matches the way the run ended
OutcomeMessage ==
    IF succeeded = None THEN "could not resolve the merge automatically"
    ELSE IF ~run_checks THEN "Remember to run validation checks before pushing"
    ELSE IF ChecksFailed THEN "merge checks failed with exit code"
    ELSE "Merge checks were executed successfully"

\* C30: a merge-resolve run calls for at most one PR comment: none without
\* a PR and none when the run ended before the merge attempts were over
\* (precondition, PR fetch, checkout or abort failure), and exactly one,
\* with the message of the outcome, when a run with a PR reached the end of
\* the merge attempts; the comment is sent by at most one POST, exactly one
\* when a token is configured.
C30_OneCommentPerRun ==
    command = "merge-resolve" =>
        /\ Len(posted) <= 1
        /\ Cardinality(CommentPosts) <= Len(posted)
        /\ ~PrSupplied => posted = <<>>
        /\ ~LoopOver => posted = <<>>
        /\ (pc = "done" /\ LoopOver /\ PrSupplied) =>
              /\ Len(posted) = 1
              /\ posted[1].body.msg = OutcomeMessage
              /\ posted[1].token \notin {NoText, <<>>, <<" ">>}
                     => /\ Cardinality(CommentPosts) = 1
                        /\ \A k \in CommentPosts : requests[k].body = posted[1].body

\* a run with a PR whose strategies both failed: the failure comment alone
C30_Witness ==
    /\ command = "merge-resolve" /\ pc = "done" /\ PrSupplied
    /\ Cardinality(FailedMerges) = 2
    /\ Len(posted) = 1
    /\ posted[1].body.msg = "could not resolve the merge automatically"
    /\ Cardinality(CommentPosts) = 1

====
